---- MODULE Spec2Model ----
(***************************************************************************)
(* A model of the Keycloak client/user management tool                     *)
(* (src/keycloak/keycloak_admin.py, src/keycloak/manage_clients.py).       *)
(*                                                                         *)
(* The directory (the Keycloak realm) is the only persistent state: the    *)
(* clients with their redirect URIs, each client's protocol mappers, the   *)
(* users and their credentials.  Every function of the tool is modelled    *)
(* by an operator computing what the function computes, and the commands   *)
(* of main() by actions that step at the tool's I/O boundaries (the        *)
(* operator's answer, one target of a batch).  Every call to the directory *)
(* may fail; a failed call leaves the directory unchanged.                 *)
(***************************************************************************)
EXTENDS Integers, Sequences, FiniteSets, TLC

VARIABLES
    clients,           \* directory: sequence of [id, clientId, redirectUris], in listing order
    mappers,           \* directory: internal client id -> sequence of mappers, in listing order
    users,             \* directory: sequence of [id, username] (and attributes, when the
                       \* user has any), in listing order
    credentials,       \* directory: user id -> [value, temporary]
    profile,           \* directory: the realm's user-profile schema
    args,              \* the arguments of the running (or last) invocation
    pc,                \* position of the invocation: "idle", "confirm", "loop", "done"
    pre,               \* the directory when the invocation started
    calls,             \* the directory mutations the invocation has issued, in order
    asked,             \* how many times the invocation has read the operator's answer
    confirm,           \* the answer read, as typed
    matching_clients,  \* find_and_replace_redirect_uri: the clients collected by the scan
    user_map,          \* reset_user_passwords: username -> user id
    users_listed,      \* sync_user_attributes_from_usernames: the users as get_users listed them
    idx,               \* number of targets the batch loop has gone through
    success_count,     \* the batch's counters
    failed_count,
    outcomes,          \* per target gone through: "ok", "not_found", "invalid", "error"
    summary,           \* <<>> until the invocation reports its tally <<succeeded, failed>>
    ret,               \* the value the last function call returned
    pending,           \* update_client_redirect_uris: the update computed from the listing
                       \* and not yet sent, <<>> when there is none
    external           \* the changes other actors made to the directory during the
                       \* invocation, in order

directory == <<clients, mappers, users, credentials, profile>>
locals    == <<matching_clients, user_map, users_listed, idx, success_count, failed_count, outcomes, summary>>
vars      == <<clients, mappers, users, credentials, profile, args, pc, pre, calls, asked, confirm,
               matching_clients, user_map, users_listed, idx, success_count, failed_count,
               outcomes, summary, ret, pending, external>>

---------------------------------------------------------------------------
(* Bounds of the model *)

MaxMappers == 2      \* mappers a client starts with (audience model)
MaxUris    == 2      \* redirect URIs a client starts with
MaxTargets == 3      \* targets of a batch
MaxDecls   == 2      \* declarations a realm's schema starts with, the built-in ones aside
MaxCalls   == 2      \* calls of create_user_profile_attribute in a row
MaxSegments == 4     \* hyphen-delimited segments of a username given to the parser
MaxSelected == 2     \* entries of a selection typed in interactive mode
MaxExternal == 1     \* changes other actors make during one invocation

---------------------------------------------------------------------------
(* Python built-ins used by the code *)

Min(S) == CHOOSE x \in S : \A y \in S : x <= y
Max(S) == CHOOSE x \in S : \A y \in S : x >= y

Range(s) == {s[i] : i \in DOMAIN s}

\* dict[key] = value
Put(d, key, value) == [k \in (DOMAIN d) \cup {key} |-> IF k = key THEN value ELSE d[k]]

\* dict.pop(key, None)
Pop(d, key) == [k \in (DOMAIN d) \ {key} |-> d[k]]

\* [x for x in s if <test>], keep[i] being the test's value on s[i]
Filter(s, keep) ==
    LET F[i \in 0..Len(s)] ==
            IF i = 0 THEN <<>>
            ELSE F[i - 1] \o (IF keep[i] THEN <<s[i]>> ELSE <<>>)
    IN  F[Len(s)]

\* the index of next((x for x in s if <test>), None), 0 for None, test[i]
\* being the test's value on s[i]
FirstIndex(test) ==
    LET hits == {i \in DOMAIN test : test[i]}
    IN  IF hits = {} THEN 0 ELSE Min(hits)

\* all sequences over S of length at most n
SeqUpTo(S, n) == UNION {[1..k -> S] : k \in 0..n}

---------------------------------------------------------------------------
(* Mappers and the audience reconciler *)

AUDIENCE_MAPPER  == "oidc-audience-mapper"
OTHER_MAPPER     == "oidc-usermodel-attribute-mapper"
CUSTOM_AUDIENCE  == "included.custom.audience"
CLIENT_AUDIENCE  == "included.client.audience"
ACCESS_CLAIM     == "access.token.claim"
ID_CLAIM         == "id.token.claim"
INTROSPECT_CLAIM == "introspection.token.claim"
USERINFO_CLAIM   == "userinfo.token.claim"
CLAIM_FLAGS      == {ACCESS_CLAIM, ID_CLAIM, INTROSPECT_CLAIM}
DEFAULT_MAPPER_NAME == "audience-mapper"

\* Outcomes of the directory's calls during one update_client_audience /
\* update_client_redirect_uris: which call, if any, raises.
FAILS == {"none", "get_clients", "get_mappers", "mutation"}

\* mutant: the legacy key is left in place
reconciled_config_keeps_legacy(config, new_audience) ==
    Put(Put(Put(Put(config, CUSTOM_AUDIENCE, new_audience),
                ACCESS_CLAIM, "true"),
            ID_CLAIM, "true"),
        INTROSPECT_CLAIM, "true")

\* the config the update branch leaves in the mapper it found
reconciled_config(config, new_audience) ==
    Put(Put(Put(Put(Pop(config, CLIENT_AUDIENCE),
                    CUSTOM_AUDIENCE, new_audience),
                ACCESS_CLAIM, "true"),
            ID_CLAIM, "true"),
        INTROSPECT_CLAIM, "true")

\* mutant: the created mapper gets the default name, not the caller's
mapper_payload_default_name(mapper_name, new_audience) ==
    [name           |-> DEFAULT_MAPPER_NAME,
     protocol       |-> "openid-connect",
     protocolMapper |-> AUDIENCE_MAPPER,
     config         |-> [k \in {CUSTOM_AUDIENCE} \cup CLAIM_FLAGS |->
                            IF k = CUSTOM_AUDIENCE THEN new_audience ELSE "true"]]

\* the mapper the create branch sends
mapper_payload(mapper_name, new_audience) ==
    [name           |-> mapper_name,
     protocol       |-> "openid-connect",
     protocolMapper |-> AUDIENCE_MAPPER,
     config         |-> [k \in {CUSTOM_AUDIENCE} \cup CLAIM_FLAGS |->
                            IF k = CUSTOM_AUDIENCE THEN new_audience ELSE "true"]]

\* mutant: the PUT overwrites every mapper of the client
update_client_mapper_all(mp, internal_id, mapper_id, mapper) ==
    [mp EXCEPT ![internal_id] = [i \in DOMAIN @ |-> mapper]]

\* directory: PUT of a mapper, found by its id
update_client_mapper(mp, internal_id, mapper_id, mapper) ==
    [mp EXCEPT ![internal_id] =
        [i \in DOMAIN @ |-> IF @[i].id = mapper_id THEN mapper ELSE @[i]]]

\* directory: POST of a new mapper; the directory assigns its id
add_mapper_to_client(mp, internal_id, payload) ==
    LET ids == {mp[internal_id][i].id : i \in DOMAIN mp[internal_id]}
        new == [id             |-> IF ids = {} THEN 1 ELSE Max(ids) + 1,
                name           |-> payload.name,
                protocol       |-> payload.protocol,
                protocolMapper |-> payload.protocolMapper,
                config         |-> payload.config]
    IN  [mp EXCEPT ![internal_id] = Append(@, new)]

\* mutant: a client id that names no client is resolved to the first client
find_client_falls_back(cl, client_id) ==
    IF FirstIndex([i \in DOMAIN cl |-> cl[i].clientId = client_id]) = 0 THEN 1
    ELSE FirstIndex([i \in DOMAIN cl |-> cl[i].clientId = client_id])

\* the first client whose clientId is client_id, as an index into the listing (0: none)
find_client(cl, client_id) == FirstIndex([i \in DOMAIN cl |-> cl[i].clientId = client_id])

\* mutant: the existing audience mapper is never recognised
find_audience_mapper_never(ms) ==
    FirstIndex([i \in DOMAIN ms |-> ms[i].protocolMapper = "audience"])

\* the first audience-type mapper, as an index into the listing (0: none)
find_audience_mapper(ms) ==
    FirstIndex([i \in DOMAIN ms |-> ms[i].protocolMapper = AUDIENCE_MAPPER])

\* update_client_audience: the value returned, the directory's mappers after
\* the call and the mutations issued
update_client_audience(cl, mp, client_id, new_audience, mapper_name, fail) ==
    LET none == [ret |-> FALSE, mappers |-> mp, calls |-> <<>>]
        c    == find_client(cl, client_id)
    IN  IF fail = "get_clients" THEN none
        ELSE IF c = 0 THEN none
        ELSE IF fail = "get_mappers" THEN none
        ELSE
          LET internal_id == cl[c].id
              ms == mp[internal_id]
              a  == find_audience_mapper(ms)
              ok == fail # "mutation"
          IN  IF a # 0
              THEN LET audience_mapper ==
                           [ms[a] EXCEPT !.config = reconciled_config(@, new_audience)]
                       call == [op |-> "update_client_mapper", client |-> internal_id,
                                mapper_id |-> ms[a].id, payload |-> audience_mapper,
                                ok |-> ok]
                   IN  [ret     |-> ok,
                        mappers |-> IF ok THEN update_client_mapper(mp, internal_id,
                                                     ms[a].id, audience_mapper)
                                    ELSE mp,
                        calls   |-> <<call>>]
              ELSE LET payload == mapper_payload(mapper_name, new_audience)
                       call == [op |-> "add_mapper_to_client", client |-> internal_id,
                                mapper_id |-> 0, payload |-> payload, ok |-> ok]
                   IN  [ret     |-> ok,
                        mappers |-> IF ok THEN add_mapper_to_client(mp, internal_id, payload)
                                    ELSE mp,
                        calls   |-> <<call>>]

---------------------------------------------------------------------------
(* Redirect URIs.  A URI is a sequence of characters, so that "contains"   *)
(* is the substring test the code makes.                                   *)

URI_OX == <<"o", "x">>
URI_X  == <<"x">>
URI_N  == <<"n">>
URIS     == {URI_OX, URI_X, URI_N}
PATTERNS == {<<"o">>, <<"x">>, <<"x", "o">>, <<>>}
NEW_URIS == {URI_N, URI_OX}
MODES    == {"replace", "add", "remove", "bogus"}     \* "bogus": any other string

\* old_pattern in uri
Contains(old_pattern, uri) ==
    \E k \in 0..(Len(uri) - Len(old_pattern)) :
        SubSeq(uri, k + 1, k + Len(old_pattern)) = old_pattern

\* list(set(xs)): the elements of xs, each once, in the order the set yields them
ListsOfSet(S) == {l \in [1..Cardinality(S) -> S] : Range(l) = S}

\* mutant: the given URIs are appended, duplicates kept
new_uris_add_appends(mode, current_uris, redirect_uris) ==
    IF mode = "replace" THEN {redirect_uris}
    ELSE IF mode = "add" THEN {current_uris \o redirect_uris}
    ELSE IF mode = "remove"
         THEN {Filter(current_uris, [i \in DOMAIN current_uris |->
                                        current_uris[i] \notin Range(redirect_uris)])}
    ELSE {}

\* mutant: only the first URI of the removal list is removed
new_uris_remove_first_only(mode, current_uris, redirect_uris) ==
    IF mode = "replace" THEN {redirect_uris}
    ELSE IF mode = "add" THEN ListsOfSet(Range(current_uris \o redirect_uris))
    ELSE IF mode = "remove"
         THEN {Filter(current_uris, [i \in DOMAIN current_uris |->
                         redirect_uris = <<>> \/ current_uris[i] # Head(redirect_uris)])}
    ELSE {}

\* the lists the mode may produce: one list, any ordering of the union for
\* "add" (a Python set has no defined order), none for an invalid mode
new_uris(mode, current_uris, redirect_uris) ==
    IF mode = "replace" THEN {redirect_uris}
    ELSE IF mode = "add" THEN ListsOfSet(Range(current_uris \o redirect_uris))
    ELSE IF mode = "remove"
         THEN {Filter(current_uris, [i \in DOMAIN current_uris |->
                                        current_uris[i] \notin Range(redirect_uris)])}
    ELSE {}

\* directory: PUT of a client's redirectUris, the client found by its internal id
update_client(cl, internal_id, redirectUris) ==
    [i \in DOMAIN cl |->
        IF cl[i].id = internal_id THEN [cl[i] EXCEPT !.redirectUris = redirectUris]
        ELSE cl[i]]

\* update_client_redirect_uris: the possible results of one call, each the
\* value returned, its outcome, the directory's clients after the call and
\* the mutations issued
update_client_redirect_uris(cl, client_id, redirect_uris, mode, fail) ==
    LET c == find_client(cl, client_id)
        stop(outcome) == {[ret |-> FALSE, outcome |-> outcome, clients |-> cl,
                           calls |-> <<>>]}
    IN  IF fail = "get_clients" THEN stop("error")
        ELSE IF c = 0 THEN stop("not_found")
        ELSE IF new_uris(mode, cl[c].redirectUris, redirect_uris) = {} THEN stop("invalid")
        ELSE
          {[ret     |-> fail # "mutation",
            outcome |-> IF fail # "mutation" THEN "ok" ELSE "error",
            clients |-> IF fail # "mutation" THEN update_client(cl, cl[c].id, n) ELSE cl,
            calls   |-> <<[op |-> "update_client", client |-> cl[c].id,
                           payload |-> n, ok |-> fail # "mutation"]>>] :
              n \in new_uris(mode, cl[c].redirectUris, redirect_uris)}

\* mutant: the old pattern is spliced out of the URI and the new URI put in its place
splice(old_pattern, new_uri, uri) ==
    LET k == Min({j \in 0..(Len(uri) - Len(old_pattern)) :
                    SubSeq(uri, j + 1, j + Len(old_pattern)) = old_pattern})
    IN  SubSeq(uri, 1, k) \o new_uri \o SubSeq(uri, k + Len(old_pattern) + 1, Len(uri))

replaced_uris_spliced(old_pattern, new_uri, oldUris) ==
    [i \in DOMAIN oldUris |->
        IF Contains(old_pattern, oldUris[i]) THEN splice(old_pattern, new_uri, oldUris[i])
        ELSE oldUris[i]]

\* [new_uri if old_pattern in uri else uri for uri in oldUris]
replaced_uris(old_pattern, new_uri, oldUris) ==
    [i \in DOMAIN oldUris |->
        IF Contains(old_pattern, oldUris[i]) THEN new_uri ELSE oldUris[i]]

\* the scan of find_and_replace_redirect_uri: the clients with a matching URI
scan_clients(cl, old_pattern) ==
    LET info(c) == [clientId     |-> c.clientId,
                    id           |-> c.id,
                    oldUris      |-> c.redirectUris,
                    matchingUris |-> Filter(c.redirectUris,
                                            [i \in DOMAIN c.redirectUris |->
                                                Contains(old_pattern, c.redirectUris[i])])]
        hits == Filter(cl, [i \in DOMAIN cl |-> info(cl[i]).matchingUris # <<>>])
    IN  [i \in DOMAIN hits |-> info(hits[i])]

---------------------------------------------------------------------------
(* The operator's answer: input(...).strip().lower() *)

WHITESPACE == {" ", "\t"}

RECURSIVE lstrip(_)
lstrip(s) == IF s # <<>> /\ Head(s) \in WHITESPACE THEN lstrip(Tail(s)) ELSE s

RECURSIVE rstrip(_)
rstrip(s) ==
    IF s # <<>> /\ s[Len(s)] \in WHITESPACE THEN rstrip(SubSeq(s, 1, Len(s) - 1)) ELSE s

strip(s) == rstrip(lstrip(s))

LOWERCASE == <<"a", "b", "c", "d", "e", "f", "g", "h", "i", "j", "k", "l", "m",
               "n", "o", "p", "q", "r", "s", "t", "u", "v", "w", "x", "y", "z">>
UPPERCASE == <<"A", "B", "C", "D", "E", "F", "G", "H", "I", "J", "K", "L", "M",
               "N", "O", "P", "Q", "R", "S", "T", "U", "V", "W", "X", "Y", "Z">>

lower_char(ch) ==
    IF \E i \in DOMAIN UPPERCASE : UPPERCASE[i] = ch
    THEN LOWERCASE[CHOOSE i \in DOMAIN UPPERCASE : UPPERCASE[i] = ch]
    ELSE ch

upper_char(ch) ==
    IF \E i \in DOMAIN LOWERCASE : LOWERCASE[i] = ch
    THEN UPPERCASE[CHOOSE i \in DOMAIN LOWERCASE : LOWERCASE[i] = ch]
    ELSE ch

\* s.lower(), s.upper()
lower(s) == [i \in DOMAIN s |-> lower_char(s[i])]
upper(s) == [i \in DOMAIN s |-> upper_char(s[i])]

YES == <<"y", "e", "s">>

\* mutant: whatever is answered is taken for a yes
confirmed_always(answer) == lower(strip(answer)) = lower(strip(answer))

\* mutant: a bare "y" is taken for a yes as well
confirmed_accepts_y(answer) == lower(strip(answer)) \in {YES, <<"y">>}

\* confirm == 'yes'
confirmed(answer) == lower(strip(answer)) = YES

ANSWERS == {YES, <<" ", "Y", "e", "S", " ">>, <<"y">>, <<"n", "o">>, <<>>, <<"y", "e", " ", "s">>}

---------------------------------------------------------------------------
(* The username parser.  A username is a sequence of characters; the       *)
(* pattern ^([\w-]+)-([A-Z]{2,3})-([A-Z]{2,})$ is matched ignoring case.   *)

LETTERS == Range(LOWERCASE) \cup Range(UPPERCASE)
DIGITS  == {"0", "1", "2", "3", "4", "5", "6", "7", "8", "9"}

\* \w
WORD_CHARS == LETTERS \cup DIGITS \cup {"_"}

\* $ matches at the end of the string and before a newline that ends it
before_dollar(s) ==
    IF s # <<>> /\ s[Len(s)] = "\n" THEN SubSeq(s, 1, Len(s) - 1) ELSE s

NoMatch == [matched |-> FALSE, group1 |-> <<>>, group2 |-> <<>>, group3 |-> <<>>]

\* mutant: the country code may be of any length from two letters on
re_match_long_code(username) ==
    LET body    == before_dollar(username)
        hyphens == {k \in DOMAIN body : body[k] = "-"}
    IN  IF Cardinality(hyphens) < 2 THEN NoMatch
        ELSE
          LET j  == Max(hyphens)
              i  == Max(hyphens \ {j})
              g1 == SubSeq(body, 1, i - 1)
              g2 == SubSeq(body, i + 1, j - 1)
              g3 == SubSeq(body, j + 1, Len(body))
          IN  IF /\ g1 # <<>>
                 /\ Range(g1) \subseteq WORD_CHARS \cup {"-"}
                 /\ Len(g2) >= 2
                 /\ Range(g2) \subseteq LETTERS
                 /\ Len(g3) >= 2
                 /\ Range(g3) \subseteq LETTERS
              THEN [matched |-> TRUE, group1 |-> g1, group2 |-> g2, group3 |-> g3]
              ELSE NoMatch

\* re.match(pattern, username, re.IGNORECASE): the second and the third
\* group hold no hyphen, so they are what follows the last two hyphens
re_match(username) ==
    LET body    == before_dollar(username)
        hyphens == {k \in DOMAIN body : body[k] = "-"}
    IN  IF Cardinality(hyphens) < 2 THEN NoMatch
        ELSE
          LET j  == Max(hyphens)
              i  == Max(hyphens \ {j})
              g1 == SubSeq(body, 1, i - 1)
              g2 == SubSeq(body, i + 1, j - 1)
              g3 == SubSeq(body, j + 1, Len(body))
          IN  IF /\ g1 # <<>>
                 /\ Range(g1) \subseteq WORD_CHARS \cup {"-"}
                 /\ Len(g2) \in {2, 3}
                 /\ Range(g2) \subseteq LETTERS
                 /\ Len(g3) >= 2
                 /\ Range(g3) \subseteq LETTERS
              THEN [matched |-> TRUE, group1 |-> g1, group2 |-> g2, group3 |-> g3]
              ELSE NoMatch

\* s.replace('-', ' ')
replace_hyphens(s) == [i \in DOMAIN s |-> IF s[i] = "-" THEN " " ELSE s[i]]

\* s.title(): a letter that follows a letter is lower-cased, any other letter
\* upper-cased
title(s) ==
    [i \in DOMAIN s |->
        IF s[i] \notin LETTERS THEN s[i]
        ELSE IF i > 1 /\ s[i - 1] \in LETTERS THEN lower_char(s[i])
        ELSE upper_char(s[i])]

SECRET       == <<"s", "e", "c", "r", "e", "t">>
TOP_SECRET   == <<"t", "o", "p", "-">> \o SECRET
CLASSIFIED   == <<"c", "l", "a", "s", "s", "i", "f", "i", "e", "d">>
UNCLASSIFIED == <<"u", "n">> \o CLASSIFIED
CONFIDENTIAL == <<"c", "o", "n", "f", "i", "d", "e", "n", "t", "i", "a", "l">>

classification_map ==
    (SECRET       :> <<"S", "e", "c", "r", "e", "t">>)
    @@ (TOP_SECRET   :> <<"T", "o", "p", " ", "S", "e", "c", "r", "e", "t">>)
    @@ (CLASSIFIED   :> <<"C", "l", "a", "s", "s", "i", "f", "i", "e", "d">>)
    @@ (UNCLASSIFIED :> <<"U", "n">> \o CLASSIFIED)
    @@ (CONFIDENTIAL :> <<"C", "o", "n", "f", "i", "d", "e", "n", "t", "i", "a", "l">>)

\* mutant: the table is not consulted in lower case
classification_of_case_sensitive(classification_raw) ==
    IF classification_raw \in DOMAIN classification_map
    THEN classification_map[classification_raw]
    ELSE classification_raw

\* classification_map.get(classification_raw.lower(),
\*                        classification_raw.replace('-', ' ').title())
classification_of(classification_raw) ==
    IF lower(classification_raw) \in DOMAIN classification_map
    THEN classification_map[lower(classification_raw)]
    ELSE title(replace_hyphens(classification_raw))

\* None
None == [matched |-> FALSE, classification |-> <<>>, nationality |-> <<>>,
         needToKnow |-> <<>>]

\* parse_username_attributes
parse_username_attributes(username) ==
    LET match == re_match(username)
    IN  IF ~match.matched THEN None
        ELSE [matched        |-> TRUE,
              classification |-> classification_of(match.group1),
              nationality    |-> upper(match.group2),
              needToKnow     |-> upper(match.group3)]

---------------------------------------------------------------------------
(* User attributes.  A value is a string or a list of strings; its field   *)
(* `list` is what isinstance(value, list) answers.                         *)

Str(x)  == [list |-> FALSE, s |-> x, l |-> <<>>]
List(x) == [list |-> TRUE, s |-> "", l |-> x]

\* {}
EmptyDict == [k \in {} |-> List(<<>>)]

\* [value] if not isinstance(value, list) else value
as_list(value) == IF value.list THEN value ELSE List(<<value.s>>)

\* mutant: the attributes given replace the user's attribute map
merged_attributes_replaces(current_attributes, attributes) ==
    [k \in DOMAIN attributes |-> as_list(attributes[k])]

\* for key, value in attributes.items(): current_attributes[key] = ...
merged_attributes(current_attributes, attributes) ==
    [k \in (DOMAIN current_attributes) \cup (DOMAIN attributes) |->
        IF k \in DOMAIN attributes THEN as_list(attributes[k]) ELSE current_attributes[k]]

\* directory: the user of the given id, as an index into the users (0: none,
\* the directory refuses the request)
get_user(us, user_id) == FirstIndex([i \in DOMAIN us |-> us[i].id = user_id])

\* user.get('attributes', {})
user_attributes(user) ==
    IF "attributes" \in DOMAIN user THEN user.attributes ELSE EmptyDict

\* directory: PUT of a user representation that holds attributes only
update_user(us, user_id, payload) ==
    [i \in DOMAIN us |->
        IF us[i].id = user_id THEN Put(us[i], "attributes", payload.attributes)
        ELSE us[i]]

\* set_user_attributes_from_username: the value returned, the directory's
\* users after the call and the mutations issued
set_user_attributes_from_username(us, user_id, username, attributes, dry_run, fail) ==
    LET u == get_user(us, user_id)
    IN  IF dry_run THEN [ret |-> TRUE, users |-> us, calls |-> <<>>]
        ELSE IF fail = "get_user" \/ u = 0 THEN [ret |-> FALSE, users |-> us, calls |-> <<>>]
        ELSE
          LET current_attributes == merged_attributes(user_attributes(us[u]), attributes)
              payload == [attributes |-> current_attributes]
              ok == fail # "update_user"
          IN  [ret   |-> ok,
               users |-> IF ok THEN update_user(us, user_id, payload) ELSE us,
               calls |-> <<[op |-> "update_user", client |-> user_id,
                            payload |-> payload, ok |-> ok]>>]

---------------------------------------------------------------------------
(* The realm's user-profile schema: a document holding the attribute       *)
(* declarations, read and written whole                                     *)

\* mutant: the declaration is written also when the name is already declared
find_declaration_never(attributes, attribute_name) ==
    FirstIndex([i \in DOMAIN attributes |-> FALSE])

\* next((attr for attr in attributes if attr.get('name') == attribute_name), None)
find_declaration(attributes, attribute_name) ==
    FirstIndex([i \in DOMAIN attributes |-> attributes[i].name = attribute_name])

\* the declaration create_user_profile_attribute adds
new_attribute(attribute_name, display_name, multivalued, required) ==
    [name        |-> attribute_name,
     displayName |-> display_name,
     validations |-> EmptyDict,
     permissions |-> [view |-> <<"admin", "user">>, edit |-> <<"admin">>],
     multivalued |-> multivalued,
     required    |-> [roles |-> IF required THEN <<"user">> ELSE <<>>, scopes |-> <<>>]]

\* create_user_profile_attribute: the value returned, the schema after the
\* call and the mutations issued
create_user_profile_attribute(pf, attribute_name, display_name, multivalued, required, fail) ==
    IF fail = "get_profile" THEN [ret |-> FALSE, profile |-> pf, calls |-> <<>>]
    ELSE IF find_declaration(pf.attributes, attribute_name) # 0
         THEN [ret |-> TRUE, profile |-> pf, calls |-> <<>>]
    ELSE
      LET new == [pf EXCEPT !.attributes =
                      Append(@, new_attribute(attribute_name, display_name,
                                              multivalued, required))]
          ok  == fail # "put_profile"
      IN  [ret     |-> ok,
           profile |-> IF ok THEN new ELSE pf,
           calls   |-> <<[op |-> "raw_put", client |-> 0, payload |-> new, ok |-> ok]>>]

\* a declaration as the realm may hold it before the tool runs
Declaration(name, display_name, edit, required) ==
    [name        |-> name,
     displayName |-> display_name,
     validations |-> EmptyDict,
     permissions |-> [view |-> <<"admin", "user">>, edit |-> edit],
     multivalued |-> FALSE,
     required    |-> [roles |-> IF required THEN <<"user">> ELSE <<>>, scopes |-> <<>>]]

\* the schema of a fresh realm
DefaultProfile ==
    [attributes |-> <<Declaration("username", "${username}", <<"admin", "user">>, TRUE),
                      Declaration("email", "${email}", <<"admin", "user">>, TRUE)>>,
     groups     |-> <<"user-metadata">>]

---------------------------------------------------------------------------
(* Interactive mode: the clients with an audience mapper, and the          *)
(* selection the operator types                                            *)

\* config.get(key, '')
config_get(config, key) == IF key \in DOMAIN config THEN config[key] ELSE ""

\* mutant: the client audience is preferred to the custom one
current_audience_prefers_client(config) ==
    IF config_get(config, CLIENT_AUDIENCE) # "" THEN config_get(config, CLIENT_AUDIENCE)
    ELSE config_get(config, CUSTOM_AUDIENCE)

\* custom_audience or client_audience
current_audience(config) ==
    IF config_get(config, CUSTOM_AUDIENCE) # "" THEN config_get(config, CUSTOM_AUDIENCE)
    ELSE config_get(config, CLIENT_AUDIENCE)

\* find_clients_with_audience: one entry for each audience-type mapper of
\* each client, in listing order; audience is <<>> for None or <<a>>; the
\* clients whose mappers cannot be read (unreadable) are passed over and a
\* failed listing of the clients gives []
find_clients_with_audience(cl, mp, audience, unreadable, fail) ==
    LET entry(client, mapper) ==
            [clientId      |-> client.clientId,
             id            |-> client.id,
             mapper        |-> mapper.name,
             audience      |-> current_audience(mapper.config),
             audience_type |-> IF config_get(mapper.config, CUSTOM_AUDIENCE) # ""
                               THEN "custom" ELSE "client"]
        matching_of(client) ==
            IF client.id \in unreadable THEN <<>>
            ELSE LET ms   == mp[client.id]
                     hits == Filter(ms, [i \in DOMAIN ms |->
                                 /\ ms[i].protocolMapper = AUDIENCE_MAPPER
                                 /\ \/ audience = <<>>
                                    \/ current_audience(ms[i].config) = audience[1]])
                 IN  [i \in DOMAIN hits |-> entry(client, hits[i])]
        matching[i \in 0..Len(cl)] ==
            IF i = 0 THEN <<>> ELSE matching[i - 1] \o matching_of(cl[i])
    IN  IF fail = "get_clients" THEN <<>> ELSE matching[Len(cl)]

DIGIT_CHARS == <<"0", "1", "2", "3", "4", "5", "6", "7", "8", "9">>

digit_value(ch) == (CHOOSE i \in DOMAIN DIGIT_CHARS : DIGIT_CHARS[i] = ch) - 1

\* the digits of an integer literal, its sign taken off
unsigned(token) ==
    IF strip(token) # <<>> /\ Head(strip(token)) \in {"-", "+"}
    THEN Tail(strip(token)) ELSE strip(token)

\* int(token) does not raise ValueError
is_int(token) == unsigned(token) # <<>> /\ Range(unsigned(token)) \subseteq Range(DIGIT_CHARS)

\* int(token)
int(token) ==
    LET digits == unsigned(token)
        value[i \in 0..Len(digits)] ==
            IF i = 0 THEN 0 ELSE 10 * value[i - 1] + digit_value(digits[i])
    IN  IF Head(strip(token)) = "-" THEN 0 - value[Len(digits)] ELSE value[Len(digits)]

\* list[i] does not raise IndexError: an index below zero counts from the end
in_range(list, i) == i >= 0 - Len(list) /\ i < Len(list)

\* list[i]
item(list, i) == IF i >= 0 THEN list[i + 1] ELSE list[Len(list) + i + 1]

\* option 2 of interactive_mode, from the selection typed to the clients
\* selected: [clients_with_audience[int(i.strip()) - 1] for i in indices],
\* invalid when int() or the indexing raises
selected_clients(clients_with_audience, indices) ==
    IF \E k \in DOMAIN indices : ~is_int(indices[k])
    THEN [invalid |-> TRUE, clients |-> <<>>]
    ELSE IF \E k \in DOMAIN indices : ~in_range(clients_with_audience, int(indices[k]) - 1)
    THEN [invalid |-> TRUE, clients |-> <<>>]
    ELSE [invalid |-> FALSE,
          clients |-> [k \in DOMAIN indices |->
                          item(clients_with_audience, int(indices[k]) - 1)]]

---------------------------------------------------------------------------
(* Arguments of an invocation: one record shape for every command *)

NoArgs ==
    [name |-> "none", client_id |-> "", targets |-> <<>>, audience |-> "",
     mapper_name |-> "", uris |-> <<>>, mode |-> "", old_pattern |-> <<>>,
     new_uri |-> <<>>, dry_run |-> FALSE, password |-> "", temporary |-> FALSE,
     user_id |-> 0, username |-> "", attributes |-> EmptyDict, attribute_name |-> "",
     display_name |-> "", multivalued |-> FALSE, required |-> FALSE,
     fail |-> "none",                   \* fail: the call the directory refused, if any
     choice |-> "", indices |-> <<>>,   \* interactive mode: the answers typed
     filter |-> <<>>,                   \* find: the audience asked for, <<>> for None
     unreadable |-> {}]                 \* the clients whose mappers cannot be read

CLIENT_IDS   == {"a", "b", "zz"}        \* "zz" names no client
AUDIENCES    == {"A", ""}
MAPPER_NAMES == {DEFAULT_MAPPER_NAME, "custom-name"}

---------------------------------------------------------------------------
(* The audience model: calls of update_client_audience on a realm of two   *)
(* clients whose mappers vary                                              *)

LegacyConfig == (CLIENT_AUDIENCE :> "old") @@ (ACCESS_CLAIM :> "false") @@ (USERINFO_CLAIM :> "true")
BothConfig   == (CLIENT_AUDIENCE :> "old") @@ (CUSTOM_AUDIENCE :> "B")
CustomConfig == (CUSTOM_AUDIENCE :> "A") @@ (ACCESS_CLAIM :> "true") @@ (ID_CLAIM :> "true")
                @@ (INTROSPECT_CLAIM :> "true")
AttrConfig   == ("user.attribute" :> "dept") @@ (CLIENT_AUDIENCE :> "x")

\* what a mapper of the realm may look like before the tool runs: its type,
\* name and config
MapperKinds ==
    {[name |-> "aud", protocolMapper |-> AUDIENCE_MAPPER, config |-> cfg] :
        cfg \in {LegacyConfig, BothConfig, CustomConfig}}
    \cup {[name |-> "attr", protocolMapper |-> OTHER_MAPPER, config |-> AttrConfig]}

\* a listing of mappers of the given kinds, ids assigned in listing order
MapperList(kinds) ==
    [i \in DOMAIN kinds |->
        [id |-> i, name |-> kinds[i].name, protocol |-> "openid-connect",
         protocolMapper |-> kinds[i].protocolMapper, config |-> kinds[i].config]]

ClientIdPairs == {<<"a", "b">>, <<"a", "a">>}

MkClients(ids, uris1, uris2) ==
    <<[id |-> 1, clientId |-> ids[1], redirectUris |-> uris1],
      [id |-> 2, clientId |-> ids[2], redirectUris |-> uris2]>>

\* the directory as the invocation finds it
Snapshot == [clients |-> clients, mappers |-> mappers, users |-> users, profile |-> profile]

InitLocals ==
    /\ args = NoArgs
    /\ pc = "idle"
    /\ calls = <<>>
    /\ asked = 0
    /\ confirm = <<>>
    /\ matching_clients = <<>>
    /\ user_map = <<>>
    /\ users_listed = <<>>
    /\ idx = 0
    /\ success_count = 0
    /\ failed_count = 0
    /\ outcomes = <<>>
    /\ summary = <<>>
    /\ ret = FALSE
    /\ pending = <<>>
    /\ external = <<>>

InitUsers ==
    /\ users = <<[id |-> 1, username |-> "u"], [id |-> 2, username |-> "v"]>>
    /\ credentials = [i \in {1, 2} |-> [value |-> "initial", temporary |-> FALSE]]
    /\ profile = DefaultProfile

InitAudience ==
    /\ \E ids \in ClientIdPairs :
           clients = MkClients(ids, <<>>, <<>>)
    /\ \E k1 \in SeqUpTo(MapperKinds, MaxMappers),
          k2 \in {<<[name |-> "aud", protocolMapper |-> AUDIENCE_MAPPER,
                      config |-> LegacyConfig]>>} :
           mappers = <<MapperList(k1), MapperList(k2)>>
    /\ InitUsers
    /\ InitLocals
    /\ pre = Snapshot

\* one call of update_client_audience, from the prompt or from another function
CallUpdateClientAudience ==
    /\ pc \in {"idle", "done"}
    /\ \E client_id \in CLIENT_IDS, new_audience \in AUDIENCES,
          mapper_name \in MAPPER_NAMES, fail \in FAILS :
        LET r == update_client_audience(clients, mappers, client_id, new_audience,
                                        mapper_name, fail)
        IN  /\ args' = [NoArgs EXCEPT !.name = "update_client_audience",
                                      !.client_id = client_id,
                                      !.audience = new_audience,
                                      !.mapper_name = mapper_name,
                                      !.fail = fail]
            /\ pre' = Snapshot
            /\ mappers' = r.mappers
            /\ calls' = r.calls
            /\ ret' = r.ret
            /\ pc' = "done"
            /\ UNCHANGED <<clients, users, credentials, profile, asked, pending, external, confirm, locals>>

NextAudience == CallUpdateClientAudience

SpecAudience == InitAudience /\ [][NextAudience]_vars

---------------------------------------------------------------------------
(* The redirect model: one call of update_client_redirect_uris on a realm  *)
(* whose first client's redirect URIs vary                                 *)

UriLists == SeqUpTo(URIS, MaxUris)

LegacyMappers ==
    <<MapperList(<<[name |-> "aud", protocolMapper |-> AUDIENCE_MAPPER,
                    config |-> LegacyConfig]>>),
      <<>>>>

InitRedirect ==
    /\ \E ids \in ClientIdPairs, uris1 \in UriLists :
           clients = MkClients(ids, uris1, <<URI_X>>)
    /\ mappers = LegacyMappers
    /\ InitUsers
    /\ InitLocals
    /\ pre = Snapshot

CallUpdateClientRedirectUris ==
    /\ pc = "idle"
    /\ \E client_id \in CLIENT_IDS, redirect_uris \in UriLists, mode \in MODES,
          fail \in FAILS \ {"get_mappers"} :
        \E r \in update_client_redirect_uris(clients, client_id, redirect_uris, mode, fail) :
            /\ args' = [NoArgs EXCEPT !.name = "update_client_redirect_uris",
                                      !.client_id = client_id,
                                      !.uris = redirect_uris,
                                      !.mode = mode,
                                      !.fail = fail]
            /\ pre' = Snapshot
            /\ clients' = r.clients
            /\ calls' = r.calls
            /\ ret' = r.ret
            /\ pc' = "done"
            /\ UNCHANGED <<mappers, users, credentials, profile, asked, pending, external, confirm, locals>>

NextRedirect == CallUpdateClientRedirectUris

SpecRedirect == InitRedirect /\ [][NextRedirect]_vars

---------------------------------------------------------------------------
(* The commands of main(): one invocation of the tool on a realm.  An      *)
(* invocation steps at its I/O boundaries: the operator's answer, and one  *)
(* target of its loop.                                                     *)

USERNAMES == {"u", "v", "zz"}           \* "zz" names no user
UserNamePairs == {<<"u", "v">>, <<"u", "u">>}
BATCH_URIS == {<<URI_X, URI_N>>}
NEW_PASSWORD == "secret"

\* the client ids or usernames given on the command line, after split(',')
TargetLists(S) == UNION {[1..k -> S] : k \in 1..MaxTargets}

\* mutant: a dry run goes on to the confirmation prompt
after_scan_ignores_dry_run(found, dry_run) == IF found = <<>> THEN "done" ELSE "confirm"

\* find_and_replace_redirect_uri after the scan: nothing found or a dry run
\* ends the run, otherwise the operator is asked
after_scan(found, dry_run) == IF found = <<>> \/ dry_run THEN "done" ELSE "confirm"

\* find-replace-redirect-uris: the listing, the scan and the report
find_and_replace_scan ==
    /\ pc = "idle"
    /\ \E old_pattern \in PATTERNS, new_uri \in NEW_URIS, dry_run \in BOOLEAN,
          fail \in {"none", "get_clients"} :
        LET found == IF fail = "get_clients" THEN <<>>
                     ELSE scan_clients(clients, old_pattern)
        IN  /\ args' = [NoArgs EXCEPT !.name = "find-replace-redirect-uris",
                                      !.old_pattern = old_pattern,
                                      !.new_uri = new_uri,
                                      !.dry_run = dry_run,
                                      !.fail = fail]
            /\ pre' = Snapshot
            /\ matching_clients' = found
            /\ pc' = IF fail = "get_clients" THEN "done" ELSE after_scan(found, dry_run)
    /\ UNCHANGED <<directory, calls, asked, pending, external, confirm, user_map, idx, success_count,
                   failed_count, outcomes, summary, ret, users_listed>>

\* the operator's answer is read
read_answer(name) ==
    /\ pc = "confirm"
    /\ args.name = name
    /\ \E answer \in ANSWERS : confirm' = answer
    /\ asked' = asked + 1

\* find-replace-redirect-uris: the confirmation
find_and_replace_confirm ==
    /\ read_answer("find-replace-redirect-uris")
    /\ pc' = IF confirmed(confirm') THEN "loop" ELSE "done"
    /\ UNCHANGED <<directory, args, pre, pending, external, calls, locals, ret>>

\* find-replace-redirect-uris: the update of one matching client
find_and_replace_update ==
    /\ pc = "loop"
    /\ args.name = "find-replace-redirect-uris"
    /\ idx < Len(matching_clients)
    /\ \E ok \in BOOLEAN :
        LET client_info == matching_clients[idx + 1]
            n == replaced_uris(args.old_pattern, args.new_uri, client_info.oldUris)
            last == idx + 1 = Len(matching_clients)
        IN  /\ clients' = IF ok THEN update_client(clients, client_info.id, n) ELSE clients
            /\ calls' = Append(calls, [op |-> "update_client", client |-> client_info.id,
                                       payload |-> n, ok |-> ok])
            /\ success_count' = success_count + (IF ok THEN 1 ELSE 0)
            /\ outcomes' = Append(outcomes, IF ok THEN "ok" ELSE "error")
            /\ idx' = idx + 1
            /\ summary' = IF last THEN <<success_count', Len(matching_clients)>> ELSE summary
            /\ pc' = IF last THEN "done" ELSE "loop"
    /\ UNCHANGED <<mappers, users, credentials, profile, args, pre, asked, pending, external, confirm,
                   matching_clients, user_map, failed_count, ret, users_listed>>

\* update-redirect-uris: the command line is parsed and the warning printed
main_update_redirect_uris ==
    /\ pc = "idle"
    /\ \E client_ids \in TargetLists(CLIENT_IDS), redirect_uris \in BATCH_URIS,
          mode \in MODES \ {"bogus"} :
        args' = [NoArgs EXCEPT !.name = "update-redirect-uris",
                               !.targets = client_ids,
                               !.uris = redirect_uris,
                               !.mode = mode]
    /\ pre' = Snapshot
    /\ pc' = "confirm"
    /\ UNCHANGED <<directory, calls, asked, pending, external, confirm, locals, ret>>

\* update-redirect-uris: the confirmation
main_update_redirect_uris_confirm ==
    /\ read_answer("update-redirect-uris")
    /\ pc' = IF confirmed(confirm') THEN "loop" ELSE "done"
    /\ UNCHANGED <<directory, args, pre, pending, external, calls, locals, ret>>

\* batch_update_redirect_uris called by another caller than main, with any mode
call_batch_update_redirect_uris ==
    /\ pc = "idle"
    /\ \E client_ids \in TargetLists(CLIENT_IDS), redirect_uris \in BATCH_URIS,
          mode \in {"bogus", "remove"} :
        args' = [NoArgs EXCEPT !.name = "batch_update_redirect_uris",
                               !.targets = client_ids,
                               !.uris = redirect_uris,
                               !.mode = mode]
    /\ pre' = Snapshot
    /\ pc' = "loop"
    /\ UNCHANGED <<directory, calls, asked, pending, external, confirm, locals, ret>>

\* mutant: the targets are taken from the last to the first
next_target_reversed(targets, done) == targets[Len(targets) - done]

\* for target in targets: the target the loop takes after it has gone through
\* the first `done` ones
next_target(targets, done) == targets[done + 1]

\* mutant: a failed target is left out of the tally
tally_drops_failures(last, succeeded, failed) == IF last THEN <<succeeded, 0>> ELSE <<>>

\* the tally a batch returns once its last target is done
tally(last, succeeded, failed) == IF last THEN <<succeeded, failed>> ELSE <<>>

\* batch_update_redirect_uris: one target
batch_update_redirect_uris ==
    /\ pc = "loop"
    /\ args.name \in {"update-redirect-uris", "batch_update_redirect_uris"}
    /\ idx < Len(args.targets)
    /\ \E fail \in FAILS \ {"get_mappers"} :
        \E r \in update_client_redirect_uris(clients, next_target(args.targets, idx),
                                             args.uris, args.mode, fail) :
            LET last == idx + 1 = Len(args.targets)
            IN  /\ clients' = r.clients
                /\ calls' = calls \o r.calls
                /\ ret' = r.ret
                /\ success_count' = success_count + (IF r.ret THEN 1 ELSE 0)
                /\ failed_count' = failed_count + (IF r.ret THEN 0 ELSE 1)
                /\ outcomes' = Append(outcomes, r.outcome)
                /\ idx' = idx + 1
                /\ summary' = tally(last, success_count', failed_count')
                /\ pc' = IF last THEN "done" ELSE "loop"
    /\ UNCHANGED <<mappers, users, credentials, profile, args, pre, asked, pending, external, confirm,
                   matching_clients, user_map, users_listed>>

\* {u.get('username'): u.get('id') for u in all_users}: a later user of the
\* same username replaces an earlier one
build_user_map(all_users) ==
    [n \in {all_users[i].username : i \in DOMAIN all_users} |->
        all_users[Max({i \in DOMAIN all_users : all_users[i].username = n})].id]

\* directory: the user's password is set
set_user_password(creds, user_id, password, temporary) ==
    [creds EXCEPT ![user_id] = [value |-> password, temporary |-> temporary]]

\* reset-passwords: the command line is parsed and the warning printed
main_reset_passwords ==
    /\ pc = "idle"
    /\ \E usernames \in TargetLists(USERNAMES), permanent \in BOOLEAN :
        args' = [NoArgs EXCEPT !.name = "reset-passwords",
                               !.targets = usernames,
                               !.password = NEW_PASSWORD,
                               !.temporary = ~permanent]
    /\ pre' = Snapshot
    /\ pc' = "confirm"
    /\ UNCHANGED <<directory, calls, asked, pending, external, confirm, locals, ret>>

\* reset-passwords: the confirmation and, on a yes, the start of
\* reset_user_passwords: the users are listed and mapped by username
main_reset_passwords_confirm ==
    /\ read_answer("reset-passwords")
    /\ IF confirmed(confirm')
       THEN \E fail \in {"none", "get_users"} :
                IF fail = "get_users"
                THEN /\ pc' = "done"
                     /\ summary' = <<0, Len(args.targets)>>
                     /\ user_map' = user_map
                ELSE /\ pc' = "loop"
                     /\ summary' = summary
                     /\ user_map' = build_user_map(users)
       ELSE /\ pc' = "done"
            /\ UNCHANGED <<summary, user_map>>
    /\ UNCHANGED <<directory, args, pre, pending, external, calls, matching_clients, idx, success_count,
                   failed_count, outcomes, ret, users_listed>>

\* reset_user_passwords: one username
reset_user_passwords ==
    /\ pc = "loop"
    /\ args.name = "reset-passwords"
    /\ idx < Len(args.targets)
    /\ LET username == next_target(args.targets, idx)
           last == idx + 1 = Len(args.targets)
       IN  /\ IF username \notin DOMAIN user_map
              THEN /\ failed_count' = failed_count + 1
                   /\ outcomes' = Append(outcomes, "not_found")
                   /\ UNCHANGED <<credentials, calls, success_count>>
              ELSE \E ok \in BOOLEAN :
                   /\ credentials' = IF ok THEN set_user_password(credentials,
                                                    user_map[username], args.password,
                                                    args.temporary)
                                     ELSE credentials
                   /\ calls' = Append(calls, [op |-> "set_user_password",
                                              client |-> user_map[username],
                                              payload |-> args.password, ok |-> ok])
                   /\ success_count' = success_count + (IF ok THEN 1 ELSE 0)
                   /\ failed_count' = failed_count + (IF ok THEN 0 ELSE 1)
                   /\ outcomes' = Append(outcomes, IF ok THEN "ok" ELSE "error")
           /\ idx' = idx + 1
           /\ summary' = tally(last, success_count', failed_count')
           /\ pc' = IF last THEN "done" ELSE "loop"
    /\ UNCHANGED <<clients, mappers, users, profile, args, pre, asked, pending, external, confirm, matching_clients,
                   user_map, ret, users_listed>>

\* update-audience: the command line is parsed
main_update_audience ==
    /\ pc = "idle"
    /\ \E client_ids \in TargetLists(CLIENT_IDS), audience \in AUDIENCES :
        args' = [NoArgs EXCEPT !.name = "update-audience",
                               !.targets = client_ids,
                               !.audience = audience,
                               !.mapper_name = DEFAULT_MAPPER_NAME]
    /\ pre' = Snapshot
    /\ pc' = "loop"
    /\ UNCHANGED <<directory, calls, asked, pending, external, confirm, locals, ret>>

\* update-audience: one client id; what update_client_audience returns is dropped
main_update_audience_loop ==
    /\ pc = "loop"
    /\ args.name = "update-audience"
    /\ idx < Len(args.targets)
    /\ \E fail \in FAILS :
        LET r == update_client_audience(clients, mappers, next_target(args.targets, idx),
                                        args.audience, args.mapper_name, fail)
        IN  /\ mappers' = r.mappers
            /\ calls' = calls \o r.calls
            /\ ret' = r.ret
    /\ idx' = idx + 1
    /\ pc' = IF idx + 1 = Len(args.targets) THEN "done" ELSE "loop"
    /\ UNCHANGED <<clients, users, credentials, profile, args, pre, asked, pending, external, confirm,
                   matching_clients, user_map, success_count, failed_count, outcomes,
                   summary, users_listed>>

Init ==
    /\ \E ids \in ClientIdPairs :
           clients = MkClients(ids, <<URI_OX, URI_X>>, <<URI_OX>>)
    /\ mappers = LegacyMappers
    /\ \E names \in UserNamePairs :
           users = <<[id |-> 1, username |-> names[1]], [id |-> 2, username |-> names[2]]>>
    /\ credentials = [i \in {1, 2} |-> [value |-> "initial", temporary |-> FALSE]]
    /\ profile = DefaultProfile
    /\ InitLocals
    /\ pre = Snapshot

Next ==
    \/ find_and_replace_scan
    \/ find_and_replace_confirm
    \/ find_and_replace_update
    \/ main_update_redirect_uris
    \/ main_update_redirect_uris_confirm
    \/ call_batch_update_redirect_uris
    \/ batch_update_redirect_uris
    \/ main_reset_passwords
    \/ main_reset_passwords_confirm
    \/ reset_user_passwords
    \/ main_update_audience
    \/ main_update_audience_loop

Spec == Init /\ [][Next]_vars

(* The find-and-replace model: the same command on a realm whose redirect  *)
(* URIs vary                                                               *)

InitFindReplace ==
    /\ \E uris1 \in UriLists, uris2 \in UriLists :
           clients = MkClients(<<"a", "b">>, uris1, uris2)
    /\ mappers = LegacyMappers
    /\ InitUsers
    /\ InitLocals
    /\ pre = Snapshot

NextFindReplace ==
    \/ find_and_replace_scan
    \/ find_and_replace_confirm
    \/ find_and_replace_update

SpecFindReplace == InitFindReplace /\ [][NextFindReplace]_vars

---------------------------------------------------------------------------
(* The attribute model: calls of set_user_attributes_from_username on a    *)
(* realm whose first user's attributes vary                                *)

\* the attribute maps a user may have before the tool runs; a user without
\* attributes has no such field
UserKinds ==
    {[id |-> 1, username |-> "u"],
     [id |-> 1, username |-> "u", attributes |-> ("department" :> List(<<"eng">>))],
     [id |-> 1, username |-> "u",
      attributes |-> ("classification" :> List(<<"Old">>))
                     @@ ("department" :> List(<<"eng", "ops">>))]}

\* the attributes a caller may ask to set
ATTRIBUTE_DICTS ==
    {EmptyDict,
     "classification" :> Str("Secret"),
     ("classification" :> Str("Secret")) @@ ("nationality" :> Str("USA")),
     "department" :> Str("ops"),
     "needToKnow" :> List(<<"AAA", "BBB">>),
     "needToKnow" :> List(<<>>)}

USER_IDS == {1, 2, 9}                   \* 9 is no user's id

InitAttributes ==
    /\ clients = MkClients(<<"a", "b">>, <<>>, <<>>)
    /\ mappers = LegacyMappers
    /\ \E u1 \in UserKinds :
           users = <<u1, [id |-> 2, username |-> "v",
                          attributes |-> ("department" :> List(<<"hr">>))]>>
    /\ credentials = [i \in {1, 2} |-> [value |-> "initial", temporary |-> FALSE]]
    /\ profile = DefaultProfile
    /\ InitLocals
    /\ pre = Snapshot

\* one call of set_user_attributes_from_username
CallSetUserAttributesFromUsername ==
    /\ pc = "idle"
    /\ \E user_id \in USER_IDS, attributes \in ATTRIBUTE_DICTS, dry_run \in BOOLEAN,
          fail \in {"none", "get_user", "update_user"} :
        LET r == set_user_attributes_from_username(users, user_id, "u", attributes,
                                                   dry_run, fail)
        IN  /\ args' = [NoArgs EXCEPT !.name = "set_user_attributes_from_username",
                                      !.user_id = user_id,
                                      !.attributes = attributes,
                                      !.dry_run = dry_run,
                                      !.fail = fail]
            /\ pre' = Snapshot
            /\ users' = r.users
            /\ calls' = r.calls
            /\ ret' = r.ret
            /\ pc' = "done"
            /\ UNCHANGED <<clients, mappers, credentials, profile, asked, pending, external, confirm, locals>>

NextAttributes == CallSetUserAttributesFromUsername

SpecAttributes == InitAttributes /\ [][NextAttributes]_vars

---------------------------------------------------------------------------
(* The schema model: calls of create_user_profile_attribute on a realm     *)
(* whose schema varies                                                     *)

\* declarations a realm may hold before the tool runs, some of them under
\* the names the tool declares but with other properties
DeclKinds ==
    {Declaration("classification", "Level", <<"admin", "user">>, TRUE),
     Declaration("nationality", "Nationality", <<"admin">>, FALSE),
     Declaration("department", "Department", <<"admin">>, FALSE)}

\* the schemas a realm may start with: the built-in declarations, then up to
\* MaxDecls others, no name declared twice (the directory refuses that)
Profiles ==
    {[DefaultProfile EXCEPT !.attributes = @ \o extra] :
        extra \in {e \in SeqUpTo(DeclKinds, MaxDecls) :
                      \A i, j \in DOMAIN e : e[i].name = e[j].name => i = j}}

\* the attributes the tool declares, with their display names
ATTRIBUTES_TO_CREATE ==
    <<[name |-> "classification", displayName |-> "Classification"],
      [name |-> "nationality", displayName |-> "Nationality"],
      [name |-> "needToKnow", displayName |-> "Need To Know"]>>

InitProfile ==
    /\ clients = MkClients(<<"a", "b">>, <<>>, <<>>)
    /\ mappers = LegacyMappers
    /\ users = <<[id |-> 1, username |-> "u"], [id |-> 2, username |-> "v"]>>
    /\ credentials = [i \in {1, 2} |-> [value |-> "initial", temporary |-> FALSE]]
    /\ profile \in Profiles
    /\ InitLocals
    /\ pre = Snapshot

\* one call of create_user_profile_attribute; idx counts the calls made
CallCreateUserProfileAttribute ==
    /\ pc \in {"idle", "done"}
    /\ idx < MaxCalls
    /\ \E a \in DOMAIN ATTRIBUTES_TO_CREATE, flag \in BOOLEAN,
          fail \in {"none", "get_profile", "put_profile"} :
        LET r == create_user_profile_attribute(profile, ATTRIBUTES_TO_CREATE[a].name,
                                               ATTRIBUTES_TO_CREATE[a].displayName,
                                               flag, flag, fail)
        IN  /\ args' = [NoArgs EXCEPT !.name = "create_user_profile_attribute",
                                      !.attribute_name = ATTRIBUTES_TO_CREATE[a].name,
                                      !.display_name = ATTRIBUTES_TO_CREATE[a].displayName,
                                      !.multivalued = flag,
                                      !.required = flag,
                                      !.fail = fail]
            /\ pre' = Snapshot
            /\ profile' = r.profile
            /\ calls' = r.calls
            /\ ret' = r.ret
            /\ idx' = idx + 1
            /\ pc' = "done"
            /\ UNCHANGED <<clients, mappers, users, credentials, asked, pending, external, confirm,
                           matching_clients, user_map, success_count, failed_count,
                           outcomes, summary, users_listed>>

NextProfile == CallCreateUserProfileAttribute

SpecProfile == InitProfile /\ [][NextProfile]_vars

---------------------------------------------------------------------------
(* The sync model: the sync-user-attributes command on a realm whose       *)
(* schema, usernames and attributes vary.  It steps at the calls to the    *)
(* directory: one declaration, the listing, one user.                      *)

U_SECRET == SECRET \o <<"-", "u", "s", "a", "-", "a", "a", "a">>
U_SHORT  == <<"x", "-", "U", "s", "-", "a", "b">>
U_ALICE  == <<"a", "l", "i", "c", "e">>
SYNC_USERNAMES == {U_SECRET, U_SHORT, U_ALICE}

SyncProfiles ==
    {DefaultProfile,
     [DefaultProfile EXCEPT !.attributes =
         @ \o <<Declaration("classification", "Level", <<"admin", "user">>, TRUE)>>]}

InitSync ==
    /\ clients = MkClients(<<"a", "b">>, <<>>, <<>>)
    /\ mappers = LegacyMappers
    /\ \E n1 \in SYNC_USERNAMES, n2 \in SYNC_USERNAMES :
       \E u1 \in {[id |-> 1, username |-> n1],
                  [id |-> 1, username |-> n1,
                   attributes |-> ("department" :> List(<<"eng">>))]} :
           users = <<u1, [id |-> 2, username |-> n2]>>
    /\ credentials = [i \in {1, 2} |-> [value |-> "initial", temporary |-> FALSE]]
    /\ profile \in SyncProfiles
    /\ InitLocals
    /\ pre = Snapshot

\* sync-user-attributes: the command line is parsed
main_sync_user_attributes ==
    /\ pc = "idle"
    /\ \E dry_run \in BOOLEAN :
        args' = [NoArgs EXCEPT !.name = "sync-user-attributes", !.dry_run = dry_run]
    /\ pre' = Snapshot
    /\ pc' = "schema"
    /\ UNCHANGED <<directory, calls, asked, pending, external, confirm, locals, ret>>

\* mutant: the declarations are made in a dry run as well
ensure_attribute_ignores_dry_run(pf, attr, dry_run, fail) ==
    create_user_profile_attribute(pf, attr.name, attr.displayName, FALSE, FALSE, fail)

\* step 1 of the sync for one attribute: declared unless this is a dry run;
\* what create_user_profile_attribute returns is dropped
ensure_attribute(pf, attr, dry_run, fail) ==
    IF ~dry_run
    THEN create_user_profile_attribute(pf, attr.name, attr.displayName, FALSE, FALSE, fail)
    ELSE [ret |-> TRUE, profile |-> pf, calls |-> <<>>]

\* sync_user_attributes_from_usernames, step 1: one attribute of the three
sync_ensure_attribute ==
    /\ pc = "schema"
    /\ idx < Len(ATTRIBUTES_TO_CREATE)
    /\ \E fail \in {"none", "get_profile", "put_profile"} :
        LET r == ensure_attribute(profile, ATTRIBUTES_TO_CREATE[idx + 1], args.dry_run, fail)
        IN  /\ profile' = r.profile
            /\ calls' = calls \o r.calls
    /\ idx' = IF idx + 1 = Len(ATTRIBUTES_TO_CREATE) THEN 0 ELSE idx + 1
    /\ pc' = IF idx + 1 = Len(ATTRIBUTES_TO_CREATE) THEN "list" ELSE "schema"
    /\ UNCHANGED <<clients, mappers, users, credentials, args, pre, asked, pending, external, confirm,
                   matching_clients, user_map, users_listed, success_count, failed_count,
                   outcomes, summary, ret>>

\* sync_user_attributes_from_usernames, step 2: the users are listed; nothing
\* catches a failure of this call, which ends the process
sync_get_users ==
    /\ pc = "list"
    /\ \E fail \in {"none", "get_users"} :
        IF fail = "get_users"
        THEN /\ pc' = "raised"
             /\ UNCHANGED <<users_listed, summary>>
        ELSE /\ users_listed' = users
             /\ pc' = IF users = <<>> THEN "done" ELSE "loop"
             /\ summary' = IF users = <<>> THEN <<0, 0, 0, 0>> ELSE summary
    /\ UNCHANGED <<directory, args, pre, calls, asked, pending, external, confirm, matching_clients, user_map,
                   idx, success_count, failed_count, outcomes, ret>>

\* the attributes parsed from a username, as passed to
\* set_user_attributes_from_username
parsed_attributes(parsed) ==
    ("classification" :> Str(parsed.classification))
    @@ ("nationality" :> Str(parsed.nationality))
    @@ ("needToKnow" :> Str(parsed.needToKnow))

\* sync_user_attributes_from_usernames, step 3: one user.  success_count is
\* updated_count and failed_count is skipped_count; the summary is the
\* total, the matched, the updated and the skipped.
sync_user ==
    /\ pc = "loop"
    /\ args.name = "sync-user-attributes"
    /\ idx < Len(users_listed)
    /\ LET user   == users_listed[idx + 1]
           parsed == parse_username_attributes(user.username)
           last   == idx + 1 = Len(users_listed)
       IN  /\ IF parsed.matched
              THEN \E fail \in {"none", "get_user", "update_user"} :
                   LET r == set_user_attributes_from_username(
                                users, user.id, user.username, parsed_attributes(parsed),
                                args.dry_run, fail)
                   IN  /\ users' = r.users
                       /\ calls' = calls \o r.calls
                       /\ ret' = r.ret
                       /\ success_count' = success_count + (IF r.ret THEN 1 ELSE 0)
                       /\ failed_count' = failed_count
                       /\ outcomes' = Append(outcomes, IF r.ret THEN "updated" ELSE "error")
              ELSE /\ failed_count' = failed_count + 1
                   /\ outcomes' = Append(outcomes, "skipped")
                   /\ UNCHANGED <<users, calls, ret, success_count>>
           /\ idx' = idx + 1
           /\ summary' = IF last
                         THEN <<Len(users_listed), idx' - failed_count', success_count',
                                failed_count'>>
                         ELSE summary
           /\ pc' = IF last THEN "done" ELSE "loop"
    /\ UNCHANGED <<clients, mappers, credentials, profile, args, pre, asked, pending, external, confirm,
                   matching_clients, user_map, users_listed>>

NextSync ==
    \/ main_sync_user_attributes
    \/ sync_ensure_attribute
    \/ sync_get_users
    \/ sync_user

SpecSync == InitSync /\ [][NextSync]_vars

---------------------------------------------------------------------------
(* The reconciler model: one request to each reconciler (audience,         *)
(* redirect URIs, user attributes, pattern substitution) on a realm where  *)
(* the value asked for may already be the current one                      *)

InitReconcile ==
    /\ \E uris1 \in {<<URI_OX, URI_X>>, <<URI_N>>} :
           clients = MkClients(<<"a", "b">>, uris1, <<URI_X>>)
    /\ \E k1 \in {<<>>, <<[name |-> "aud", protocolMapper |-> AUDIENCE_MAPPER,
                           config |-> CustomConfig]>>} :
           mappers = <<MapperList(k1), <<>>>>
    /\ \E u1 \in UserKinds :
           users = <<u1, [id |-> 2, username |-> "v"]>>
    /\ credentials = [i \in {1, 2} |-> [value |-> "initial", temporary |-> FALSE]]
    /\ profile = DefaultProfile
    /\ InitLocals
    /\ pre = Snapshot

\* a first call of update_client_audience
ReconcileAudience == pc = "idle" /\ CallUpdateClientAudience

NextReconcile ==
    \/ ReconcileAudience
    \/ CallUpdateClientRedirectUris
    \/ CallSetUserAttributesFromUsername
    \/ find_and_replace_scan
    \/ find_and_replace_confirm
    \/ find_and_replace_update

SpecReconcile == InitReconcile /\ [][NextReconcile]_vars

---------------------------------------------------------------------------
(* The parser model: parse_username_attributes applied to usernames made  *)
(* of up to MaxSegments segments joined by hyphens, and to the examples    *)

\* '-'.join(segments)
Join(segments) ==
    LET J[i \in 0..Len(segments)] ==
            IF i = 0 THEN <<>>
            ELSE IF i = 1 THEN segments[1]
            ELSE J[i - 1] \o <<"-">> \o segments[i]
    IN  J[Len(segments)]

\* segments to build usernames of: words in either case, codes of one to
\* four letters, a word with a digit, an empty segment, one with a space
SEGMENTS ==
    {SECRET, <<"T", "o", "p">>, <<"u", "S", "a">>, <<"a", "a">>, <<"a">>,
     <<"u", "s", "a", "a">>, <<"x", "1">>, <<>>, <<"a", " ", "b">>}

EXAMPLES ==
    {<<"s", "e", "c", "r", "e", "t", "-", "u", "s", "a", "-", "a", "a", "a">>,
     <<"t", "o", "p", "-", "s", "e", "c", "r", "e", "t", "-", "g", "b", "r", "-", "b", "b", "b">>,
     <<"a", "l", "i", "c", "e">>,
     <<"c", "l", "a", "s", "s", "i", "f", "i", "e", "d", "-", "f", "r", "a", "-", "i", "n", "t">>,
     <<"U", "N", "C", "L", "A", "S", "S", "I", "F", "I", "E", "D", "-", "u", "s", "-", "z", "z">>,
     <<"c", "o", "n", "f", "i", "d", "e", "n", "t", "i", "a", "l", "-", "d", "e", "u", "-", "n", "a", "t", "o">>,
     <<"u", "s", "a", "-", "a", "a", "a">>,
     <<"s", "e", "c", "r", "e", "t", "-", "u", "s", "a", "-", "a", "a", "a", "\n">>}

PARSER_INPUTS == {Join(segments) : segments \in SeqUpTo(SEGMENTS, MaxSegments)} \cup EXAMPLES

InitParser ==
    /\ clients = MkClients(<<"a", "b">>, <<>>, <<>>)
    /\ mappers = LegacyMappers
    /\ InitUsers
    /\ \E username \in PARSER_INPUTS :
           args = [NoArgs EXCEPT !.name = "parse_username_attributes",
                                 !.username = username]
    /\ pc = "idle"
    /\ calls = <<>>
    /\ asked = 0
    /\ confirm = <<>>
    /\ matching_clients = <<>>
    /\ user_map = <<>>
    /\ users_listed = <<>>
    /\ idx = 0
    /\ success_count = 0
    /\ failed_count = 0
    /\ outcomes = <<>>
    /\ summary = <<>>
    /\ ret = None
    /\ pending = <<>>
    /\ external = <<>>
    /\ pre = Snapshot

\* one call of parse_username_attributes
CallParseUsernameAttributes ==
    /\ pc = "idle"
    /\ args.name = "parse_username_attributes"
    /\ ret' = parse_username_attributes(args.username)
    /\ pc' = "done"
    /\ UNCHANGED <<directory, args, pre, calls, asked, pending, external, confirm, locals>>

NextParser == CallParseUsernameAttributes

SpecParser == InitParser /\ [][NextParser]_vars

---------------------------------------------------------------------------
(* The interactive model: the interactive command on a realm of two        *)
(* clients, stepping at the scan, at the answers typed and at each update  *)

\* the entries the operator may type in a selection, as split at the commas
TOKENS ==
    {<<"1">>, <<"2">>, <<"3">>, <<"0">>, <<"-", "1">>, <<"-", "3">>, <<" ", "2">>,
     <<"x">>, <<>>}

SELECTIONS == UNION {[1..k -> TOKENS] : k \in 1..MaxSelected}

InitInteractive ==
    /\ clients = MkClients(<<"a", "b">>, <<>>, <<>>)
    /\ \E k1 \in {<<>>,
                   <<[name |-> "aud", protocolMapper |-> AUDIENCE_MAPPER,
                      config |-> CustomConfig]>>,
                   <<[name |-> "aud", protocolMapper |-> AUDIENCE_MAPPER,
                      config |-> LegacyConfig],
                     [name |-> "aud", protocolMapper |-> AUDIENCE_MAPPER,
                      config |-> BothConfig]>>} :
           mappers = <<MapperList(k1),
                       MapperList(<<[name |-> "aud", protocolMapper |-> AUDIENCE_MAPPER,
                                     config |-> LegacyConfig]>>)>>
    /\ InitUsers
    /\ InitLocals
    /\ pre = Snapshot

\* interactive: the scan for clients with an audience mapper, and their listing
interactive_mode ==
    /\ pc = "idle"
    /\ \E unreadable \in SUBSET {1}, fail \in {"none", "get_clients"} :
        LET clients_with_audience ==
                find_clients_with_audience(clients, mappers, <<>>, unreadable, fail)
        IN  /\ matching_clients' = clients_with_audience
            /\ pc' = IF clients_with_audience = <<>> THEN "done" ELSE "choice"
            /\ args' = [NoArgs EXCEPT !.name = "interactive", !.fail = fail]
    /\ pre' = Snapshot
    /\ UNCHANGED <<directory, calls, asked, pending, external, confirm, user_map, users_listed, idx,
                   success_count, failed_count, outcomes, summary, ret>>

\* interactive, option 1: the audience and the confirmation are read; on a
\* yes every client listed is to be updated (args.targets)
interactive_update_all ==
    /\ pc = "choice"
    /\ \E new_audience \in AUDIENCES, answer \in ANSWERS :
        LET go == new_audience # "" /\ confirmed(answer)
        IN  /\ args' = [args EXCEPT !.choice = "1",
                                    !.audience = new_audience,
                                    !.mapper_name = DEFAULT_MAPPER_NAME,
                                    !.targets = IF go
                                                THEN [k \in DOMAIN matching_clients |->
                                                         matching_clients[k].clientId]
                                                ELSE <<>>]
            /\ confirm' = IF new_audience # "" THEN answer ELSE confirm
            /\ pc' = IF go THEN "loop" ELSE "done"
    /\ UNCHANGED <<directory, pre, calls, asked, pending, external, locals, ret>>

\* interactive, option 2: the selection is read, then the audience; the
\* clients selected are to be updated (args.targets), none after an invalid
\* selection or an empty audience
interactive_update_selected ==
    /\ pc = "choice"
    /\ \E indices \in SELECTIONS, new_audience \in AUDIENCES :
        LET selected == selected_clients(matching_clients, indices)
            go       == ~selected.invalid /\ new_audience # ""
        IN  /\ args' = [args EXCEPT !.choice = "2",
                                    !.indices = indices,
                                    !.audience = IF selected.invalid THEN "" ELSE new_audience,
                                    !.mapper_name = DEFAULT_MAPPER_NAME,
                                    !.targets = IF go
                                                THEN [k \in DOMAIN selected.clients |->
                                                         selected.clients[k].clientId]
                                                ELSE <<>>]
            /\ outcomes' = IF selected.invalid THEN <<"invalid_selection">> ELSE outcomes
            /\ pc' = IF go THEN "loop" ELSE "done"
    /\ UNCHANGED <<directory, pre, calls, asked, pending, external, confirm, matching_clients, user_map,
                   users_listed, idx, success_count, failed_count, summary, ret>>

\* interactive, option 3 or any other answer
interactive_exit ==
    /\ pc = "choice"
    /\ \E choice \in {"3", ""} : args' = [args EXCEPT !.choice = choice]
    /\ pc' = "done"
    /\ UNCHANGED <<directory, pre, calls, asked, pending, external, confirm, locals, ret>>

\* interactive: the update of one of the clients to update
interactive_update ==
    /\ pc = "loop"
    /\ args.name = "interactive"
    /\ idx < Len(args.targets)
    /\ \E fail \in FAILS :
        LET r == update_client_audience(clients, mappers, next_target(args.targets, idx),
                                        args.audience, args.mapper_name, fail)
        IN  /\ mappers' = r.mappers
            /\ calls' = calls \o r.calls
            /\ ret' = r.ret
    /\ idx' = idx + 1
    /\ pc' = IF idx + 1 = Len(args.targets) THEN "done" ELSE "loop"
    /\ UNCHANGED <<clients, users, credentials, profile, args, pre, asked, pending, external, confirm,
                   matching_clients, user_map, users_listed, success_count, failed_count,
                   outcomes, summary>>

NextInteractive ==
    \/ interactive_mode
    \/ interactive_update_all
    \/ interactive_update_selected
    \/ interactive_exit
    \/ interactive_update

SpecInteractive == InitInteractive /\ [][NextInteractive]_vars

---------------------------------------------------------------------------
(* The find model: find_clients_with_audience on a realm of two clients    *)
(* whose mappers vary, as found or after one call of update_client_audience *)

\* the audience given to find: None, or a value
FILTERS == {<<>>, <<"A">>, <<"old">>, <<"">>}

InitFind == InitAudience

\* one call of find_clients_with_audience, as the find command makes it
CallFindClientsWithAudience ==
    /\ pc \in {"idle", "done"}
    /\ \E audience \in FILTERS, unreadable \in SUBSET {1, 2},
          fail \in {"none", "get_clients"} :
        /\ fail = "get_clients" => unreadable = {}
        /\ matching_clients' =
               find_clients_with_audience(clients, mappers, audience, unreadable, fail)
        /\ args' = [NoArgs EXCEPT !.name = "find",
                                  !.filter = audience,
                                  !.unreadable = unreadable,
                                  !.fail = fail]
    /\ pc' = "found"
    /\ UNCHANGED <<directory, pre, calls, asked, pending, external, confirm, user_map, users_listed, idx,
                   success_count, failed_count, outcomes, summary, ret>>

NextFind ==
    \/ ReconcileAudience
    \/ CallFindClientsWithAudience

SpecFind == InitFind /\ [][NextFind]_vars

---------------------------------------------------------------------------
(* The race model: the two redirect-URI reconcilers stepping at each round *)
(* trip to the directory, with another actor changing a client's redirect  *)
(* URIs between the listing read and the update sent                       *)

\* mutant: the client's redirect URIs are taken as the default, []
current_uris_default(client) == <<>>

\* client.get('redirectUris', [])
current_uris(client) == client.redirectUris

\* what another actor may set a client's redirect URIs to
EXTERNAL_URIS == {<<>>, <<URI_N>>, <<URI_OX, URI_N>>}

InitRace ==
    /\ \E uris1 \in UriLists :
           clients = MkClients(<<"a", "b">>, uris1, <<URI_OX>>)
    /\ mappers = LegacyMappers
    /\ InitUsers
    /\ InitLocals
    /\ pre = Snapshot

\* update_client_redirect_uris up to the update it is about to send: the
\* clients are listed, the client resolved and its new URIs computed
update_client_redirect_uris_read ==
    /\ pc = "idle"
    /\ \E client_id \in CLIENT_IDS, redirect_uris \in {<<URI_N>>, <<URI_X>>}, mode \in MODES,
          fail \in {"none", "get_clients"} :
        LET c == find_client(clients, client_id)
            computed == IF fail = "get_clients" \/ c = 0 THEN {}
                        ELSE new_uris(mode, current_uris(clients[c]), redirect_uris)
        IN  /\ args' = [NoArgs EXCEPT !.name = "update_client_redirect_uris",
                                      !.client_id = client_id,
                                      !.uris = redirect_uris,
                                      !.mode = mode,
                                      !.fail = fail]
            /\ IF computed = {}
               THEN /\ pending' = <<>>
                    /\ pc' = "done"
               ELSE /\ \E n \in computed :
                           pending' = <<[id |-> clients[c].id, new_uris |-> n]>>
                    /\ pc' = "write"
    /\ pre' = Snapshot
    /\ ret' = FALSE
    /\ UNCHANGED <<directory, calls, asked, confirm, locals, external>>

\* update_client_redirect_uris: the update is sent
update_client_redirect_uris_write ==
    /\ pc = "write"
    /\ \E ok \in BOOLEAN :
        /\ clients' = IF ok THEN update_client(clients, pending[1].id, pending[1].new_uris)
                      ELSE clients
        /\ calls' = Append(calls, [op |-> "update_client", client |-> pending[1].id,
                                   payload |-> pending[1].new_uris, ok |-> ok])
        /\ ret' = ok
    /\ pending' = <<>>
    /\ pc' = "done"
    /\ UNCHANGED <<mappers, users, credentials, profile, args, pre, asked, confirm, locals,
                   external>>

\* another actor sets a client's redirect URIs while the invocation, having
\* listed the clients, has updates left to send
other_actor_updates_client ==
    /\ pc \in {"confirm", "loop", "write"}
    /\ Len(external) < MaxExternal
    /\ \E i \in DOMAIN clients, uris \in EXTERNAL_URIS :
        /\ uris # clients[i].redirectUris
        /\ clients' = update_client(clients, clients[i].id, uris)
        /\ external' = Append(external, [client |-> clients[i].id, payload |-> uris,
                                         at |-> Len(calls)])
    /\ UNCHANGED <<mappers, users, credentials, profile, args, pc, pre, calls, asked, confirm,
                   locals, ret, pending>>

NextRace ==
    \/ find_and_replace_scan
    \/ find_and_replace_confirm
    \/ find_and_replace_update
    \/ update_client_redirect_uris_read
    \/ update_client_redirect_uris_write
    \/ other_actor_updates_client

SpecRace == InitRace /\ [][NextRace]_vars

---------------------------------------------------------------------------
(* The frame model: one call of update_client_audience or of               *)
(* update_client_redirect_uris on a realm of two clients, the first with   *)
(* mappers that vary and two redirect URIs                                 *)

InitFrame ==
    /\ \E ids \in ClientIdPairs :
           clients = MkClients(ids, <<URI_OX, URI_X>>, <<URI_X>>)
    /\ \E k1 \in SeqUpTo(MapperKinds, MaxMappers) :
           mappers = <<MapperList(k1),
                       MapperList(<<[name |-> "aud", protocolMapper |-> AUDIENCE_MAPPER,
                                     config |-> LegacyConfig]>>)>>
    /\ InitUsers
    /\ InitLocals
    /\ pre = Snapshot

NextFrame ==
    \/ ReconcileAudience
    \/ CallUpdateClientRedirectUris

SpecFrame == InitFrame /\ [][NextFrame]_vars

---------------------------------------------------------------------------
(* Claims about update_client_audience (checked under SpecAudience) *)

\* a successful call of update_client_audience has just returned
AudienceApplied == args.name = "update_client_audience" /\ pc = "done" /\ ret

\* the internal id of the client the call resolved (AudienceApplied implies there is one)
ResolvedId == pre.clients[find_client(pre.clients, args.client_id)].id

AudienceIndices(ms) == {i \in DOMAIN ms : ms[i].protocolMapper = AUDIENCE_MAPPER}

\* a mapper config is in the reconciled shape for the audience
Reconciled(config, audience) ==
    /\ CUSTOM_AUDIENCE \in DOMAIN config
    /\ config[CUSTOM_AUDIENCE] = audience
    /\ CLIENT_AUDIENCE \notin DOMAIN config
    /\ \A f \in CLAIM_FLAGS : f \in DOMAIN config /\ config[f] = "true"

\* C1: after a successful update_client_audience(client, A) the client's
\* first audience-type mapper (the one that existed before, when one did)
\* has the custom-audience key equal to A, no client-audience key and the
\* three claim flags "true", whatever its config was before.
C1_AudienceMapperReconciled ==
    AudienceApplied =>
        LET before == pre.mappers[ResolvedId]
            after  == mappers[ResolvedId]
            was    == AudienceIndices(before)
            now    == AudienceIndices(after)
        IN  /\ now # {}
            /\ Reconciled(after[Min(now)].config, args.audience)
            /\ was # {} => /\ Min(now) = Min(was)
                           /\ after[Min(was)].id = before[Min(was)].id

\* C1 witness: the update ran on a mapper that had both audience keys populated
C1_Witness ==
    /\ AudienceApplied
    /\ LET before == pre.mappers[ResolvedId]
           was    == AudienceIndices(before)
       IN  /\ was # {}
           /\ {CUSTOM_AUDIENCE, CLIENT_AUDIENCE} \subseteq DOMAIN before[Min(was)].config

\* the same call made once more, everything succeeding
AppliedAgain ==
    update_client_audience(clients, mappers, args.client_id, args.audience,
                           args.mapper_name, "none")

\* C2 (as amended): a second successful update_client_audience with the same
\* audience changes nothing; after the first, the client's first
\* audience-type mapper is reconciled, and the client has as many
\* audience-type mappers as before, or one when it had none.
C2_AudienceIdempotent ==
    AudienceApplied =>
        LET before == pre.mappers[ResolvedId]
            after  == mappers[ResolvedId]
            was    == Cardinality(AudienceIndices(before))
            now    == AudienceIndices(after)
        IN  /\ AppliedAgain.ret
            /\ AppliedAgain.mappers = mappers
            /\ Cardinality(now) = (IF was = 0 THEN 1 ELSE was)
            /\ Reconciled(after[Min(now)].config, args.audience)

\* C2 witness: the call succeeded on a client that had two audience-type mappers
C2_Witness ==
    /\ AudienceApplied
    /\ Cardinality(AudienceIndices(pre.mappers[ResolvedId])) >= 2

\* C2 as stated: idempotent, and the final configuration has exactly one
\* audience-type mapper, reconciled.
C2_Original ==
    AudienceApplied =>
        LET after == mappers[ResolvedId]
            now   == AudienceIndices(after)
        IN  /\ AppliedAgain.ret
            /\ AppliedAgain.mappers = mappers
            /\ Cardinality(now) = 1
            /\ \A i \in now : Reconciled(after[i].config, args.audience)

\* C3: a successful update_client_audience issues exactly one mutation: an
\* update of the first audience-type mapper under its existing id and name
\* when there is one, otherwise a create under the caller's mapper name.
C3_OneMutation ==
    AudienceApplied =>
        LET before == pre.mappers[ResolvedId]
            after  == mappers[ResolvedId]
            was    == AudienceIndices(before)
        IN  /\ Len(calls) = 1
            /\ calls[1].client = ResolvedId
            /\ IF was # {}
               THEN /\ calls[1].op = "update_client_mapper"
                    /\ calls[1].mapper_id = before[Min(was)].id
                    /\ calls[1].payload.id = before[Min(was)].id
                    /\ calls[1].payload.name = before[Min(was)].name
                    /\ Len(after) = Len(before)
                    /\ after[Min(was)].name = before[Min(was)].name
               ELSE /\ calls[1].op = "add_mapper_to_client"
                    /\ calls[1].payload.name = args.mapper_name
                    /\ Len(after) = Len(before) + 1
                    /\ after[Len(after)].name = args.mapper_name
                    /\ after[Len(after)].protocolMapper = AUDIENCE_MAPPER

\* C3 witness: a create under a caller-supplied name other than the default
C3_Witness ==
    /\ AudienceApplied
    /\ AudienceIndices(pre.mappers[ResolvedId]) = {}
    /\ args.mapper_name # DEFAULT_MAPPER_NAME
    /\ calls[1].op = "add_mapper_to_client"

---------------------------------------------------------------------------
(* Claims about update_client_redirect_uris (checked under SpecRedirect) *)

\* a successful call of update_client_redirect_uris in the given mode has just returned
RedirectApplied(mode) ==
    args.name = "update_client_redirect_uris" /\ pc = "done" /\ ret /\ args.mode = mode

\* the redirect URIs of the client with the given internal id
UrisOf(cl, internal_id) ==
    cl[CHOOSE i \in DOMAIN cl : cl[i].id = internal_id].redirectUris

NoDuplicates(l) == \A i, j \in DOMAIN l : l[i] = l[j] => i = j

\* C4: in "add" mode the list written holds exactly the union of the
\* client's existing URIs and the given ones, each once.
C4_AddIsUnion ==
    RedirectApplied("add") =>
        LET old     == UrisOf(pre.clients, ResolvedId)
            written == UrisOf(clients, ResolvedId)
        IN  /\ Len(calls) = 1
            /\ calls[1].payload = written
            /\ Range(written) = Range(old) \cup Range(args.uris)
            /\ NoDuplicates(written)

\* C4 witness: an add onto a list that already had a duplicate, with a URI
\* given twice and one the client already had
C4_Witness ==
    /\ RedirectApplied("add")
    /\ ~NoDuplicates(UrisOf(pre.clients, ResolvedId))
    /\ ~NoDuplicates(args.uris)
    /\ Range(args.uris) \cap Range(UrisOf(pre.clients, ResolvedId)) # {}

\* C5: in "remove" mode the list written is the existing list without the
\* entries equal to a URI of the removal list, the others in their order.
C5_RemoveKeepsOrder ==
    RedirectApplied("remove") =>
        LET old     == UrisOf(pre.clients, ResolvedId)
            written == UrisOf(clients, ResolvedId)
            kept    == {i \in DOMAIN old : \A j \in DOMAIN args.uris : old[i] # args.uris[j]}
            nth(n)  == CHOOSE i \in kept : Cardinality({k \in kept : k <= i}) = n
        IN  /\ Len(calls) = 1
            /\ calls[1].payload = written
            /\ Len(written) = Cardinality(kept)
            /\ \A n \in DOMAIN written : written[n] = old[nth(n)]

\* C5 witness: a removal that drops one entry and keeps another
C5_Witness ==
    /\ RedirectApplied("remove")
    /\ Len(args.uris) = 2
    /\ LET old == UrisOf(pre.clients, ResolvedId)
       IN  /\ Len(old) = 2
           /\ old[1] # old[2]
           /\ old[2] \in Range(args.uris)
           /\ old[1] \notin Range(args.uris)

---------------------------------------------------------------------------
(* Claims about find_and_replace_redirect_uri (checked under SpecFindReplace) *)

FindReplace == args.name = "find-replace-redirect-uris"

\* some URI of the list contains the pattern
Affected(old_pattern, uris) == \E i \in DOMAIN uris : Contains(old_pattern, uris[i])

\* C6: every list find_and_replace_redirect_uri writes is as long as the
\* client's old list, holds new_uri wherever the old URI contains
\* old_pattern and the old URI everywhere else; a client none of whose URIs
\* contains old_pattern is sent no update and keeps its list.
C6_WholeUriReplaced ==
    FindReplace =>
        /\ \A k \in DOMAIN calls :
            LET old     == UrisOf(pre.clients, calls[k].client)
                written == calls[k].payload
            IN  /\ calls[k].op = "update_client"
                /\ Affected(args.old_pattern, old)
                /\ Len(written) = Len(old)
                /\ \A i \in DOMAIN old :
                       written[i] = IF Contains(args.old_pattern, old[i])
                                    THEN args.new_uri ELSE old[i]
                /\ calls[k].ok => UrisOf(clients, calls[k].client) = written
        /\ \A c \in DOMAIN pre.clients :
               ~Affected(args.old_pattern, pre.clients[c].redirectUris)
                   => clients[c] = pre.clients[c]

\* C6 witness: a list with a matching and a non-matching URI was rewritten,
\* while the other client, with no matching URI, was passed over
C6_Witness ==
    /\ FindReplace
    /\ pc = "done"
    /\ Len(calls) = 1
    /\ calls[1].ok
    /\ args.old_pattern = <<"o">>
    /\ UrisOf(pre.clients, calls[1].client) = <<URI_X, URI_OX>>
    /\ \E c \in DOMAIN clients : clients[c].redirectUris = <<URI_X>>

\* C7: a dry run of find_and_replace_redirect_uri issues no update, never
\* asks for confirmation and leaves the directory's clients as they were.
C7_DryRunMutatesNothing ==
    (FindReplace /\ args.dry_run) =>
        /\ calls = <<>>
        /\ asked = 0
        /\ clients = pre.clients
        /\ pc = "done"

\* C7 witness: a dry run that found clients to change has ended
C7_Witness ==
    /\ FindReplace
    /\ args.dry_run
    /\ pc = "done"
    /\ Len(matching_clients) = 2

---------------------------------------------------------------------------
(* Claims about the commands of main() (checked under Spec) *)

Confirmable ==
    args.name \in {"find-replace-redirect-uris", "update-redirect-uris", "reset-passwords"}

\* the answers of ANSWERS that read "yes" once trimmed and lower-cased
YesAnswers == {<<"y", "e", "s">>, <<" ", "Y", "e", "S", " ">>}

\* no mutation before the answer, the answer read at most once and before
\* the first target, and no mutation at all after any answer but a yes
AnswerGuards ==
    /\ asked <= 1
    /\ asked = 1 => confirm \in ANSWERS
    /\ (calls # <<>> \/ pc = "loop" \/ idx > 0) => (asked = 1 /\ confirm \in YesAnswers)
    /\ (asked = 1 /\ confirm \notin YesAnswers) =>
           /\ pc = "done"
           /\ calls = <<>>
           /\ clients = pre.clients
           /\ \A u \in DOMAIN credentials : credentials[u].value = "initial"

\* C8 (as amended): for the confirmation-required commands no mutation is
\* issued before the answer is read, the answer is read at most once per
\* invocation and before the first target, and any answer other than "yes"
\* (trimmed, lower-cased) ends the run with zero mutations; a finished
\* update-redirect-uris or reset-passwords run has read it exactly once, a
\* finished find-replace run exactly once unless it was a dry run or found
\* no client to change, when it has not asked at all.
C8_ConfirmationBeforeMutation ==
    Confirmable =>
        /\ AnswerGuards
        /\ (pc = "done" /\ ~FindReplace) => asked = 1
        /\ (pc = "done" /\ FindReplace) =>
               asked = (IF args.dry_run \/ matching_clients = <<>> THEN 0 ELSE 1)

\* C8 witness: passwords were reset after an answer that needed trimming and lower-casing
C8_Witness ==
    /\ args.name = "reset-passwords"
    /\ pc = "done"
    /\ asked = 1
    /\ confirm = <<" ", "Y", "e", "S", " ">>
    /\ Len(calls) = Len(args.targets)

\* C8 as stated: the answer is read exactly once per invocation.
C8_Original ==
    Confirmable =>
        /\ AnswerGuards
        /\ pc = "done" => asked = 1

Batch == args.name \in {"update-redirect-uris", "batch_update_redirect_uris", "reset-passwords"}

\* the batch function was entered: called directly, or after a yes
BatchEntered == args.name = "batch_update_redirect_uris" \/ (asked = 1 /\ confirm \in YesAnswers)

Count(l, S) == Cardinality({i \in DOMAIN l : l[i] \in S})

\* C9: batch_update_redirect_uris and reset_user_passwords go through every
\* target whatever became of the earlier ones, and return counts that add
\* up to the number of targets, each target counted once: as succeeded when
\* its own outcome is ok, as failed otherwise (all as failed when
\* reset_user_passwords could not list the users).
C9_BatchCountsEveryTarget ==
    (Batch /\ BatchEntered) =>
        /\ Len(outcomes) = idx
        /\ success_count = Count(outcomes, {"ok"})
        /\ failed_count = Count(outcomes, {"not_found", "invalid", "error"})
        /\ pc = "loop" => idx < Len(args.targets)
        /\ pc = "done" =>
            /\ Len(summary) = 2
            /\ summary[1] + summary[2] = Len(args.targets)
            /\ \/ idx = Len(args.targets) /\ summary = <<success_count, failed_count>>
               \/ /\ args.name = "reset-passwords"
                  /\ idx = 0
                  /\ calls = <<>>
                  /\ summary = <<0, Len(args.targets)>>

\* C9 witness: three targets, the second failing on a directory error, give 2 and 1
C9_Witness ==
    /\ args.name = "update-redirect-uris"
    /\ pc = "done"
    /\ outcomes = <<"ok", "error", "ok">>
    /\ summary = <<2, 1>>

\* C10: the update-audience command ends with a tally of successes and
\* failures that adds up to the number of client ids, a client whose update
\* failed being counted as failed.
C10_AudienceBatchTally ==
    (args.name = "update-audience" /\ pc = "done") =>
        /\ Len(summary) = 2
        /\ summary[1] + summary[2] = Len(args.targets)
        /\ ~ret => summary[2] >= 1

\* the running invocation is in the loop of a batch
BatchLoop ==
    /\ pc = "loop"
    /\ args.name \in {"update-audience", "update-redirect-uris",
                      "batch_update_redirect_uris", "reset-passwords"}

\* the internal id the k-th target of the batch resolves to (0: to none)
TargetId(k) ==
    IF args.name = "reset-passwords"
    THEN IF args.targets[k] \in DOMAIN user_map THEN user_map[args.targets[k]] ELSE 0
    ELSE IF find_client(clients, args.targets[k]) = 0 THEN 0
         ELSE clients[find_client(clients, args.targets[k])].id

\* C11: every step of a batch (update-audience, update-redirect-uris,
\* reset-passwords) goes through the next target in the order given and
\* issues at most one mutation, for that target; it never goes back to a
\* target, so a failed one is not retried, and the batch ends exactly when
\* the last target is done.
C11_InOrderNoRetry ==
    [][BatchLoop =>
          /\ args' = args
          /\ idx' = idx + 1
          /\ Len(calls') \in {Len(calls), Len(calls) + 1}
          /\ SubSeq(calls', 1, Len(calls)) = calls
          /\ Len(calls') = Len(calls) + 1 =>
                 calls'[Len(calls')].client = TargetId(idx + 1)
          /\ pc' = IF idx' = Len(args.targets) THEN "done" ELSE "loop"]_vars

\* C11 witness: of the targets a, b, a the first failed on the directory's
\* refusal; one mutation each was issued, for a, b and a in that order
C11_Witness ==
    /\ args.name = "update-redirect-uris"
    /\ pc = "done"
    /\ args.targets = <<"a", "b", "a">>
    /\ Len(calls) = 3
    /\ ~calls[1].ok /\ calls[2].ok /\ calls[3].ok
    /\ <<calls[1].client, calls[2].client, calls[3].client>> = <<1, 2, 1>>

\* the k-th target of the batch names no entity of the directory
Absent(k) ==
    IF args.name = "reset-passwords"
    THEN \A i \in DOMAIN users : users[i].username # args.targets[k]
    ELSE \A i \in DOMAIN clients : clients[i].clientId # args.targets[k]

\* C12: when the next target of a batch names no client (no user, for
\* reset-passwords), its step issues no mutation and leaves the directory
\* as it is, the operation returns False rather than raising, the target is
\* counted as failed with the outcome not-found (or error, when the listing
\* of the clients itself failed), and the batch goes on to the next target.
C12_NotFoundIsNotFatal ==
    [][(BatchLoop /\ Absent(idx + 1)) =>
          /\ calls' = calls
          /\ directory' = directory
          /\ idx' = idx + 1
          /\ pc' = IF idx' = Len(args.targets) THEN "done" ELSE "loop"
          /\ args.name # "reset-passwords" => ~ret'
          /\ args.name # "update-audience" =>
                 /\ failed_count' = failed_count + 1
                 /\ success_count' = success_count
                 /\ Len(outcomes') = Len(outcomes) + 1
                 /\ SubSeq(outcomes', 1, Len(outcomes)) = outcomes
                 /\ outcomes'[Len(outcomes')] \in
                        (IF args.name = "reset-passwords" THEN {"not_found"}
                         ELSE {"not_found", "error"})]_vars

\* C12 witness: of the targets zz, a the first named no client and was
\* reported not found, the second was updated
C12_Witness ==
    /\ args.name = "update-redirect-uris"
    /\ pc = "done"
    /\ args.targets = <<"zz", "a">>
    /\ outcomes = <<"not_found", "ok">>
    /\ Len(calls) = 1
    /\ summary = <<1, 1>>

---------------------------------------------------------------------------
(* Claims about set_user_attributes_from_username (checked under SpecAttributes) *)

\* a call of set_user_attributes_from_username, not a dry run, has written
AttributesWritten ==
    /\ args.name = "set_user_attributes_from_username"
    /\ ~args.dry_run
    /\ calls # <<>>

\* the user of the given id in a listing
UserOf(us, user_id) == us[CHOOSE i \in DOMAIN us : us[i].id = user_id]

\* C13: the attribute map set_user_attributes_from_username writes (not a
\* dry run) has the keys of the user's existing map and the keys being
\* set; a key not being set keeps its value, a key being set holds the
\* one-element list of the value given, or the value itself when that is a
\* list; a call that returns True has written it, to that user alone.
C13_AttributeMerge ==
    /\ AttributesWritten =>
          LET old     == user_attributes(UserOf(pre.users, args.user_id))
              written == calls[1].payload.attributes
          IN  /\ Len(calls) = 1
              /\ calls[1].op = "update_user"
              /\ calls[1].client = args.user_id
              /\ DOMAIN written = (DOMAIN old) \cup (DOMAIN args.attributes)
              /\ \A k \in (DOMAIN old) \ (DOMAIN args.attributes) : written[k] = old[k]
              /\ \A k \in DOMAIN args.attributes :
                     /\ written[k].list
                     /\ written[k].l = IF args.attributes[k].list
                                       THEN args.attributes[k].l
                                       ELSE <<args.attributes[k].s>>
              /\ calls[1].ok =>
                     /\ UserOf(users, args.user_id).attributes = written
                     /\ \A i \in DOMAIN users :
                            users[i].id # args.user_id => users[i] = pre.users[i]
    /\ (args.name = "set_user_attributes_from_username" /\ ~args.dry_run /\ ret) =>
          (calls # <<>> /\ calls[1].ok)

\* C13 witness: classification "Secret" was set on a user whose map held a
\* department, which is still there
C13_Witness ==
    /\ AttributesWritten
    /\ ret
    /\ args.attributes = ("classification" :> Str("Secret"))
    /\ user_attributes(UserOf(pre.users, args.user_id)) = ("department" :> List(<<"eng">>))
    /\ UserOf(users, args.user_id).attributes =
           ("classification" :> List(<<"Secret">>)) @@ ("department" :> List(<<"eng">>))

---------------------------------------------------------------------------
(* Claims about create_user_profile_attribute (checked under SpecProfile) *)

\* a call of create_user_profile_attribute has just returned
ProfileCalled == args.name = "create_user_profile_attribute" /\ pc = "done"

\* the positions of the declarations of the given name
Declared(attributes, name) == {i \in DOMAIN attributes : attributes[i].name = name}

\* the same call made once more, the directory answering
DeclaredAgain ==
    create_user_profile_attribute(profile, args.attribute_name, args.display_name,
                                  args.multivalued, args.required, "none")

---------------------------------------------------------------------------
(* Claims about sync_user_attributes_from_usernames (checked under SpecSync) *)

Sync == args.name = "sync-user-attributes"

\* the three attributes of the sync are all declared in the schema
AllDeclared(pf) ==
    \A a \in DOMAIN ATTRIBUTES_TO_CREATE :
        Declared(pf.attributes, ATTRIBUTES_TO_CREATE[a].name) # {}

\* C15: in a sync that is not a dry run, a user is written only when
\* classification, nationality and needToKnow are all declared in the
\* realm's schema, so no user is written after the schema could not be
\* fetched or updated.
C15_SchemaDeclaredBeforeWrite ==
    (Sync /\ ~args.dry_run) =>
        \A k \in DOMAIN calls : calls[k].op = "update_user" => AllDeclared(profile)

\* C16: a dry run of the sync issues no call that writes, neither to the
\* schema nor to a user, and leaves the schema and the users as they were.
C16_DryRunSyncMutatesNothing ==
    (Sync /\ args.dry_run) =>
        /\ calls = <<>>
        /\ profile = pre.profile
        /\ users = pre.users
        /\ pc # "loop" => users_listed \in {<<>>, users}

\* C16 witness: a dry run has ended on a realm where nothing was declared,
\* having matched a user and skipped another
C16_Witness ==
    /\ Sync
    /\ args.dry_run
    /\ pc = "done"
    /\ ~AllDeclared(profile)
    /\ outcomes = <<"updated", "skipped">>
    /\ summary = <<2, 1, 1, 1>>

---------------------------------------------------------------------------
(* Claims about the course of a reconciliation request (checked under SpecReconcile) *)

AudienceCall   == args.name = "update_client_audience"
RedirectCall   == args.name = "update_client_redirect_uris"
AttributesCall == args.name = "set_user_attributes_from_username"

\* a request to the audience, redirect or attribute reconciler has ended
ReconcilerCalled == (AudienceCall \/ RedirectCall \/ AttributesCall) /\ pc = "done"

\* the request names an entity the directory holds
TargetExists ==
    IF AttributesCall THEN \E i \in DOMAIN pre.users : pre.users[i].id = args.user_id
    ELSE \E i \in DOMAIN pre.clients : pre.clients[i].clientId = args.client_id

\* RESOLVED: the entity exists and the directory answered the read that finds
\* it (a dry run of the attribute reconciler reads nothing: its caller has
\* listed the user)
Resolved ==
    /\ TargetExists
    /\ args.fail # "get_clients"
    /\ (AttributesCall /\ ~args.dry_run) => args.fail # "get_user"

\* COMPUTING_DIFF done: the value to write is known
Diffed ==
    /\ Resolved
    /\ AudienceCall => args.fail # "get_mappers"
    /\ RedirectCall => args.mode \in {"replace", "add", "remove"}

\* where the request ended.  ABORTED: a read the directory refused, or an
\* invalid mode, ended it before the diff was computed
Phase ==
    IF calls # <<>> THEN (IF calls[Len(calls)].ok THEN "APPLIED" ELSE "APPLY_FAILED")
    ELSE IF Diffed THEN "NO_OP"
    ELSE IF ~TargetExists /\ args.fail \notin {"get_clients", "get_user"} /\ ~args.dry_run
         THEN "NOT_FOUND"
    ELSE "ABORTED"

\* what holds of every request, whichever reconciler: at most one mutation,
\* issued only once the target is resolved and the diff computed, and
\* success reported for an applied mutation only (and for a dry run)
RequestCourse ==
    /\ Len(calls) <= 1
    /\ calls # <<>> => Diffed
    /\ ret <=> (Phase = "APPLIED" \/ (AttributesCall /\ args.dry_run))

\* the pattern-substitution flow: once clients to change were found, no
\* mutation is attempted exactly after a dry run or an answer other than
\* yes; otherwise one is attempted for each of them
SubstitutionCourse ==
    (FindReplace /\ pc = "done" /\ matching_clients # <<>>) =>
        /\ calls = <<>> <=> (args.dry_run \/ (asked = 1 /\ confirm \notin YesAnswers))
        /\ calls # <<>> => Len(calls) = Len(matching_clients)

\* C17 (as amended): a request ends NOT_FOUND, APPLIED or APPLY_FAILED (or
\* is aborted by a refused read or an invalid mode), a mutation coming only
\* after resolution and diff; NO_OP, resolved and diffed with no mutation
\* attempted, is reached in the pattern-substitution flow on a dry run or a
\* declined confirmation, and in the user-attribute reconciler on a dry
\* run; the audience and redirect reconcilers, and the user-attribute
\* reconciler outside a dry run, always issue a mutation once the diff is
\* computed, also when the value computed is the current one.
C17_RequestStateMachine ==
    /\ ReconcilerCalled =>
          /\ RequestCourse
          /\ Phase = "NO_OP" <=> (AttributesCall /\ args.dry_run /\ TargetExists)
    /\ SubstitutionCourse

\* C17 witness: the audience asked for was the one the mapper had, and the
\* mapper was updated all the same
C17_Witness ==
    /\ AudienceCall
    /\ pc = "done"
    /\ ret
    /\ Len(calls) = 1
    /\ calls[1].op = "update_client_mapper"
    /\ mappers = pre.mappers

\* C17 as stated: NO_OP is reached in the pattern-substitution flow only.
C17_Original ==
    /\ ReconcilerCalled =>
          /\ RequestCourse
          /\ Phase # "NO_OP"
    /\ SubstitutionCourse

---------------------------------------------------------------------------
(* Claims about parse_username_attributes (checked under SpecParser) *)

\* parse_username_attributes has returned
Parsed == args.name = "parse_username_attributes" /\ pc = "done"

\* username.split('-'): the hyphen-delimited segments
Segments(username) ==
    LET hyphens == {k \in DOMAIN username : username[k] = "-"}
        cut(n)  == IF n = 0 THEN 0
                   ELSE IF n > Cardinality(hyphens) THEN Len(username) + 1
                   ELSE CHOOSE k \in hyphens : Cardinality({h \in hyphens : h <= k}) = n
    IN  [n \in 1..(Cardinality(hyphens) + 1) |->
            SubSeq(username, cut(n - 1) + 1, cut(n) - 1)]

IsWord(segment) == segment # <<>> /\ Range(segment) \subseteq WORD_CHARS
IsCode(segment, least, most) ==
    /\ Len(segment) >= least
    /\ Len(segment) <= most
    /\ Range(segment) \subseteq LETTERS

\* the grammar: one or more words joined by hyphens, a country code of two
\* or three letters, a need-to-know code of two or more letters
InGrammar(username) ==
    LET segments == Segments(username)
        n        == Len(segments)
    IN  /\ n >= 3
        /\ \A k \in 1..(n - 2) : IsWord(segments[k])
        /\ IsCode(segments[n - 1], 2, 3)
        /\ IsCode(segments[n], 2, Len(username))

\* the classification token: everything before the last two segments
Token(username) ==
    LET segments == Segments(username)
    IN  Join(SubSeq(segments, 1, Len(segments) - 2))

Attributes(classification, nationality, needToKnow) ==
    [matched |-> TRUE, classification |-> classification, nationality |-> nationality,
     needToKnow |-> needToKnow]

\* C18: for a username of the grammar parse_username_attributes returns the
\* last two segments upper-cased as nationality and needToKnow, and as
\* classification the table's value for the lower-cased token or, the
\* token not being in the table, the token title-cased with its hyphens
\* turned into spaces; secret-usa-aaa gives Secret/USA/AAA,
\* top-secret-gbr-bbb gives Top Secret/GBR/BBB and alice gives None.
C18_ParsedAttributes ==
    Parsed =>
        /\ InGrammar(args.username) =>
              LET segments == Segments(args.username)
                  n        == Len(segments)
                  token    == Token(args.username)
              IN  /\ ret.matched
                  /\ ret.nationality = upper(segments[n - 1])
                  /\ ret.needToKnow = upper(segments[n])
                  /\ ret.classification =
                         (IF lower(token) \in DOMAIN classification_map
                          THEN classification_map[lower(token)]
                          ELSE title(replace_hyphens(token)))
        /\ args.username = <<"s", "e", "c", "r", "e", "t", "-", "u", "s", "a", "-", "a", "a", "a">> =>
              ret = Attributes(<<"S", "e", "c", "r", "e", "t">>, <<"U", "S", "A">>, <<"A", "A", "A">>)
        /\ args.username = <<"t", "o", "p", "-", "s", "e", "c", "r", "e", "t", "-", "g", "b", "r", "-", "b", "b", "b">> =>
              ret = Attributes(<<"T", "o", "p", " ", "S", "e", "c", "r", "e", "t">>, <<"G", "B", "R">>, <<"B", "B", "B">>)
        /\ args.username = <<"a", "l", "i", "c", "e">> => ret = None

\* C18 witness: Top-secret-uSa-aa, of the grammar and in the table only once
\* lower-cased, was parsed
C18_Witness ==
    /\ Parsed
    /\ args.username = Join(<<<<"T", "o", "p">>, SECRET, <<"u", "S", "a">>, <<"a", "a">>>>)
    /\ ret = Attributes(<<"T", "o", "p", " ", "S", "e", "c", "r", "e", "t">>, <<"U", "S", "A">>, <<"A", "A">>)

\* C19: parse_username_attributes matches a username only if it has three
\* hyphen-delimited segments or more, the last a code of two or more
\* letters, the one before a code of two or three letters, and those before
\* non-empty words; a username of two segments or fewer gives None.
C19_MatchesOnlyGrammar ==
    Parsed =>
        /\ ret.matched => InGrammar(args.username)
        /\ Len(Segments(args.username)) <= 2 => ret = None

---------------------------------------------------------------------------
(* Claims about interactive_mode (checked under SpecInteractive) *)

\* option 2 of interactive mode was taken and a selection typed
Selected == args.name = "interactive" /\ args.choice = "2"

\* the entry is no number, or a number outside 1..N, N clients being listed
BadEntry(token, N) == ~is_int(token) \/ int(token) < 1 \/ int(token) > N

\* C20: in interactive mode, option 2, a selection holding an entry that is
\* no number or a number outside 1..N (0 and the negative ones included)
\* aborts the step: no client's audience is updated, and the command ends
\* without raising.
C20_InvalidSelectionAborts ==
    (Selected /\ \E k \in DOMAIN args.indices :
                    BadEntry(args.indices[k], Len(matching_clients))) =>
        /\ pc = "done"
        /\ outcomes = <<"invalid_selection">>
        /\ calls = <<>>
        /\ mappers = pre.mappers

---------------------------------------------------------------------------
(* Claims about identifier resolution (checked under Spec) *)

\* the commands that resolve clients by clientId, and the one resolving users
ByClientId == args.name \in {"update-redirect-uris", "batch_update_redirect_uris",
                             "update-audience"}
ByUsername == args.name = "reset-passwords"

\* the ids of the first client, in listing order, of each clientId asked for
FirstClients ==
    {pre.clients[find_client(pre.clients, args.targets[t])].id :
        t \in {t \in DOMAIN args.targets : find_client(pre.clients, args.targets[t]) # 0}}

\* the ids of the first user, in listing order, of each username asked for
FirstUsers ==
    LET first(name) == FirstIndex([i \in DOMAIN pre.users |-> pre.users[i].username = name])
    IN  {pre.users[first(args.targets[t])].id :
            t \in {t \in DOMAIN args.targets : first(args.targets[t]) # 0}}

\* C21: resolution by external identifier acts on the first entity listed
\* whose identifier equals the key: every mutation of an audience update, a
\* redirect-URI update or a password reset goes to the first client of a
\* clientId asked for, or the first user of a username asked for, and to no
\* other entity.
C21_FirstMatchWins ==
    \A k \in DOMAIN calls :
        /\ ByClientId => calls[k].client \in FirstClients
        /\ ByUsername => calls[k].client \in FirstUsers

---------------------------------------------------------------------------
(* Claims about find_clients_with_audience (checked under SpecFind) *)

Found == args.name = "find"

\* the value of a key of a mapper's config, empty when the key is absent
Value(config, key) == IF key \in DOMAIN config THEN config[key] ELSE ""

\* the effective audience of a mapper and its type
Effective(config) ==
    IF Value(config, CUSTOM_AUDIENCE) = "" THEN Value(config, CLIENT_AUDIENCE)
    ELSE Value(config, CUSTOM_AUDIENCE)

TypeOf(config) == IF Value(config, CUSTOM_AUDIENCE) = "" THEN "client" ELSE "custom"

\* the mappers to report, as <<place of the client, place of the mapper>>:
\* the audience-type mappers of the clients whose mappers can be read,
\* those of the audience asked for when one is
Reported ==
    {p \in UNION {{<<i, j>> : j \in DOMAIN mappers[clients[i].id]} : i \in DOMAIN clients} :
        /\ args.fail = "none"
        /\ clients[p[1]].id \notin args.unreadable
        /\ mappers[clients[p[1]].id][p[2]].protocolMapper = AUDIENCE_MAPPER
        /\ \/ args.filter = <<>>
           \/ Effective(mappers[clients[p[1]].id][p[2]].config) = args.filter[1]}

\* the place of a reported mapper in the report: clients, then mappers, in
\* listing order
Rank(p) ==
    Cardinality({q \in Reported : q[1] < p[1] \/ (q[1] = p[1] /\ q[2] < p[2])}) + 1

Entry(p) ==
    LET client == clients[p[1]]
        mapper == mappers[client.id][p[2]]
    IN  [clientId      |-> client.clientId,
         id            |-> client.id,
         mapper        |-> mapper.name,
         audience      |-> Effective(mapper.config),
         audience_type |-> TypeOf(mapper.config)]

FindReport ==
    Found =>
        /\ Len(matching_clients) = Cardinality(Reported)
        /\ \A p \in Reported : matching_clients[Rank(p)] = Entry(p)

\* a find for audience A, reading the client's mappers, that follows a
\* successful update_client_audience(c, A), A non-empty, reports c as custom
UpdateThenFind ==
    (/\ pc = "done" /\ args.name = "update_client_audience"
     /\ ret /\ args.audience # ""
     /\ pc' = "found" /\ args'.filter = <<args.audience>> /\ args'.fail = "none"
     /\ clients[find_client(clients, args.client_id)].id \notin args'.unreadable)
    => \E k \in DOMAIN matching_clients' :
           /\ matching_clients'[k].clientId = args.client_id
           /\ matching_clients'[k].audience_type = "custom"

\* C22: find_clients_with_audience reports one entry for each audience-type
\* mapper of each client whose mappers can be read, in listing order, with
\* the effective audience (the custom audience when non-empty, else the
\* client audience) and the type custom exactly when the custom audience is
\* non-empty; with an audience asked for, exactly the mappers of that
\* effective audience; a client whose mappers cannot be read is passed over
\* and the others are reported all the same.  And a find for A after a
\* successful update_client_audience(c, A), A non-empty, holds c as custom.
C22_FindReportsEffectiveAudience == [](FindReport) /\ [][UpdateThenFind]_vars

\* a find for "A" after a successful update, one client unreadable, reports
\* a custom entry
C22_Witness ==
    /\ Found /\ pc = "found"
    /\ ret /\ calls # <<>>
    /\ args.filter = <<"A">>
    /\ args.unreadable # {}
    /\ \E k \in DOMAIN matching_clients : matching_clients[k].audience_type = "custom"

---------------------------------------------------------------------------
(* Claims about concurrent changes (checked under SpecRace) *)

\* the lists the running command may send for a client whose redirect URIs
\* it has read as `read`
DerivedFrom(read) ==
    IF args.name = "find-replace-redirect-uris"
    THEN {replaced_uris(args.old_pattern, args.new_uri, read)}
    ELSE new_uris(args.mode, read, args.uris)

\* the update the step sent, when it sent one
Sent == calls'[Len(calls')]

\* C23: a redirect-URI update is computed from the listing read at
\* resolution and sent without another look: whatever another actor has set
\* the client's redirect URIs to since, the list sent is one derived from
\* the listing read, and once accepted it is what the client holds, the
\* other actor's change gone.
C23_StaleOverwrite ==
    [][Len(calls') > Len(calls) =>
          /\ Sent.payload \in DerivedFrom(UrisOf(pre.clients, Sent.client))
          /\ Sent.ok => UrisOf(clients', Sent.client) = Sent.payload]_vars

\* a lost update: find-replace has overwritten, with the list derived from
\* its scan, a change another actor made to the client after the scan, and
\* the list it would have derived from the changed URIs is another
C23_Witness ==
    /\ args.name = "find-replace-redirect-uris"
    /\ pc = "done"
    /\ \E e \in Range(external), k \in DOMAIN calls :
        /\ e.client = calls[k].client
        /\ e.at < k
        /\ calls[k].ok
        /\ e.payload # UrisOf(pre.clients, e.client)
        /\ UrisOf(clients, e.client) = calls[k].payload
        /\ calls[k].payload \notin DerivedFrom(e.payload)

---------------------------------------------------------------------------
(* Claims about what a reconciliation leaves alone (checked under SpecFrame) *)

\* the place, in the listing the call found, of the client it resolved (0: none)
Target == find_client(pre.clients, args.client_id)

\* the places of the client's mappers that the call changed
ChangedMappers(id) == {j \in DOMAIN pre.mappers[id] : mappers[id][j] # pre.mappers[id][j]}

\* the places of the audience-type mappers the client had
AudienceMappers(id) ==
    {j \in DOMAIN pre.mappers[id] : pre.mappers[id][j].protocolMapper = AUDIENCE_MAPPER}

AudienceFrame ==
    (args.name = "update_client_audience" /\ pc = "done") =>
        /\ clients = pre.clients /\ users = pre.users /\ profile = pre.profile
        /\ Target = 0 => (~ret /\ calls = <<>> /\ mappers = pre.mappers)
        /\ Target # 0 =>
              LET id == pre.clients[Target].id
              IN  /\ \A other \in DOMAIN mappers : other # id => mappers[other] = pre.mappers[other]
                  /\ \/ mappers[id] = pre.mappers[id]
                     \/ /\ Len(mappers[id]) = Len(pre.mappers[id])
                        /\ ChangedMappers(id) = {Min(AudienceMappers(id))}
                     \/ /\ AudienceMappers(id) = {}
                        /\ Len(mappers[id]) = Len(pre.mappers[id]) + 1
                        /\ SubSeq(mappers[id], 1, Len(pre.mappers[id])) = pre.mappers[id]

RedirectFrame ==
    (args.name = "update_client_redirect_uris" /\ pc = "done") =>
        /\ mappers = pre.mappers /\ users = pre.users /\ profile = pre.profile
        /\ DOMAIN clients = DOMAIN pre.clients
        /\ \A i \in DOMAIN clients :
              /\ clients[i].id = pre.clients[i].id
              /\ clients[i].clientId = pre.clients[i].clientId
              /\ i # Target => clients[i] = pre.clients[i]
        /\ (Target = 0 \/ args.mode \notin {"replace", "add", "remove"}) =>
              (~ret /\ calls = <<>> /\ clients = pre.clients)

\* C24: a single-target reconciliation changes its target only.
\* update_client_audience changes at most one mapper of the client resolved
\* (its first audience-type mapper, or one mapper added after the others
\* when it had none) and leaves its other mappers, every other client's
\* mappers and every client's redirect URIs as they were;
\* update_client_redirect_uris changes the redirectUris of the client
\* resolved and nothing else; and a call that finds no target, or is given
\* an invalid mode, returns False having changed nothing.
C24_OnlyTheTargetChanges == AudienceFrame /\ RedirectFrame

\* update_client_audience has rewritten the audience mapper of a client that
\* has another mapper before it
C24_Witness ==
    /\ args.name = "update_client_audience" /\ pc = "done" /\ ret
    /\ Target # 0
    /\ Len(pre.mappers[pre.clients[Target].id]) = 2
    /\ ChangedMappers(pre.clients[Target].id) = {2}

====
